---- MODULE Spec2Model ----
(***************************************************************************)
(* A model of diagassert's power-assert rendering engine:                  *)
(*   internal/evaluator/evaluator.go  (evaluation tree)                    *)
(*   internal/formatter/visual.go     (positions, layers, rendering,       *)
(*                                     colour configuration)               *)
(*   values.go                        (assertion context)                  *)
(* Text is a sequence of runes; a rune is a one-character string, or the   *)
(* name "Uxxxx" of a code point outside ASCII.                             *)
(***************************************************************************)
EXTENDS Integers, Sequences, FiniteSets, TLC

VARIABLES
    pc,            \* position of the rendering call (formatPowerAssertStyle), or of the evaluation
    ast,           \* parser.ParseExpr(expr): the syntax tree with its spans
    userValues,    \* the captured name -> value map (ctx.GetValuesMap())
    env,           \* process environment: FORCE_COLOR, NO_COLOR, DIAGASSERT_PIPE_COLORS
    NoColor,       \* the colour library's global color.NoColor
    colorConfig,   \* f.colorConfig of the formatter in use
    tree,          \* result.Tree
    positions,     \* []ValuePosition
    assignment,    \* LayerAssignment
    result,        \* the lines returned by buildPowerAssertTreeWithLayers
    nodeCounter,   \* evaluator's package-level nodeCounter
    evals,         \* the concurrent evaluations: position, locals, IDs handed out;
                   \* or the one call of the evaluator: its arguments, locals and return value
    formatters,    \* the formatters constructed so far and what each first emitted
    runs,          \* invocations of NewAssertionContext on the same arguments
    output         \* the lines of the string formatPowerAssertStyle returns

vars == <<pc, ast, userValues, env, NoColor, colorConfig, tree, positions,
          assignment, result, nodeCounter, evals, formatters, runs, output>>

----------------------------------------------------------------------------
(* Runes, UTF-8 and visual width                                           *)

\* The code point of each rune of the model's alphabet.
Codepoint(r) ==
    CASE r = "ESC" -> 27  [] r = " " -> 32  [] r = "!" -> 33 [] r = "\"" -> 34
      [] r = "&" -> 38 [] r = "(" -> 40 [] r = ")" -> 41
      [] r = "-" -> 45 [] r = "." -> 46
      [] r = "0" -> 48 [] r = "1" -> 49 [] r = "2" -> 50 [] r = "3" -> 51
      [] r = "4" -> 52 [] r = "5" -> 53 [] r = "6" -> 54 [] r = "7" -> 55
      [] r = "8" -> 56 [] r = "9" -> 57
      [] r = ";" -> 59 [] r = "<" -> 60 [] r = "=" -> 61 [] r = ">" -> 62
      [] r = ":" -> 58
      [] r = "[" -> 91 [] r = "\\" -> 92 [] r = "]" -> 93 [] r = "U0060" -> 96
      [] r = "a" -> 97 [] r = "b" -> 98 [] r = "c" -> 99 [] r = "d" -> 100
      [] r = "e" -> 101 [] r = "f" -> 102 [] r = "h" -> 104 [] r = "i" -> 105
      [] r = "l" -> 108
      [] r = "m" -> 109 [] r = "n" -> 110 [] r = "o" -> 111 [] r = "r" -> 114 [] r = "s" -> 115
      [] r = "t" -> 116 [] r = "u" -> 117 [] r = "x" -> 120 [] r = "y" -> 121
      [] r = "|" -> 124
      [] r = "U3042" -> 12354     \* Hiragana A
      [] r = "U5E74" -> 24180     \* Han
      [] r = "U9F62" -> 40802     \* Han
      [] r = "UFF21" -> 65313     \* full-width A

\* isWideRune: Hiragana, Katakana, Han, Hangul, or U+FF00..U+FFEF.
isWideRune(r) ==
    LET cp == Codepoint(r) IN
       \/ cp \in 12353..12447        \* unicode.Hiragana
       \/ cp \in 12449..12543        \* unicode.Katakana
       \/ cp \in 19968..40959        \* unicode.Han (unified ideographs)
       \/ cp \in 44032..55203        \* unicode.Hangul (syllables)
       \/ cp \in 65280..65519        \* r >= 0xFF00 && r <= 0xFFEF

RECURSIVE visualWidth(_)
visualWidth(s) ==
    IF s = <<>> THEN 0
    ELSE (IF isWideRune(Head(s)) THEN 2 ELSE 1) + visualWidth(Tail(s))

\* utf8.RuneLen
RuneLen(r) ==
    LET cp == Codepoint(r) IN
    IF cp < 128 THEN 1 ELSE IF cp < 2048 THEN 2 ELSE IF cp < 65536 THEN 3 ELSE 4

\* The UTF-8 encoding of one rune, as byte values.
EncodeRune(r) ==
    LET cp == Codepoint(r) IN
    IF cp < 128 THEN <<cp>>
    ELSE IF cp < 2048 THEN <<192 + (cp \div 64), 128 + (cp % 64)>>
    ELSE <<224 + (cp \div 4096), 128 + ((cp \div 64) % 64), 128 + (cp % 64)>>

\* A Go string: the bytes of its runes.
RECURSIVE Bytes(_)
Bytes(s) == IF s = <<>> THEN <<>> ELSE EncodeRune(Head(s)) \o Bytes(Tail(s))

\* len(s) of a Go string
ByteLen(s) == Len(Bytes(s))

\* strings.Index on byte strings: offset of the first occurrence, or -1.
IndexFrom(s, sub, i) ==
    LET hits == {k \in i..(Len(s) - Len(sub)) : SubSeq(s, k + 1, k + Len(sub)) = sub} IN
    IF hits = {} THEN -1 ELSE CHOOSE k \in hits : \A h \in hits : k <= h

\* The concatenation of the sequences ss[lo..hi].
RECURSIVE ConcatRange(_, _, _)
ConcatRange(ss, lo, hi) ==
    IF lo > hi THEN <<>>
    ELSE IF lo = hi THEN ss[lo]
    ELSE ConcatRange(ss, lo, (lo + hi) \div 2) \o ConcatRange(ss, (lo + hi) \div 2 + 1, hi)

Concat(ss) == ConcatRange(ss, 1, Len(ss))

stringsIndex(s, sub) == IndexFrom(Bytes(s), Bytes(sub), 0)

----------------------------------------------------------------------------
(* The syntax tree go/parser produces.  A node carries its span as         *)
(* token.Pos values of the parser's own file set: 1 + byte offset.         *)

NoNode == [kind |-> "none"]

Leaf(tok, off) ==
    [kind |-> tok.kind, text |-> tok.text, op |-> <<>>, X |-> NoNode, Y |-> NoNode,
     pos |-> off + 1, end |-> off + 1 + ByteLen(tok.text)]

Binary(x, op, y) ==
    [kind |-> "BinaryExpr", text |-> <<>>, op |-> op, X |-> x, Y |-> y,
     pos |-> x.pos, end |-> y.end]

\* "(x)": the parentheses are one byte each around the operand's span.
Paren(x) ==
    [kind |-> "ParenExpr", text |-> <<>>, op |-> <<>>, X |-> x, Y |-> NoNode,
     pos |-> x.pos - 1, end |-> x.end + 1]

\* One operand, or "L op R" written with single spaces, starting at byte off.
ParseTerm(t, off) ==
    IF t.op = <<>> THEN Leaf(t.L, off)
    ELSE Binary(Leaf(t.L, off), t.op,
                Leaf(t.R, off + ByteLen(t.L.text) + 1 + ByteLen(t.op) + 1))

\* "t1 && t2 && ...": && is left-associative and binds weaker than comparisons.
RECURSIVE ParseChain(_, _)
ParseChain(acc, rest) ==
    IF rest = <<>> THEN acc
    ELSE ParseChain(Binary(acc, <<"&", "&">>, ParseTerm(Head(rest), (acc.end - 1) + 4)),
                    Tail(rest))

ParseExpr(terms) == ParseChain(ParseTerm(Head(terms), 0), Tail(terms))

\* parser.ParseExpr returning an error: the text is all there is.
BadExpr(text) ==
    [kind |-> "BadExpr", text |-> text, op |-> <<>>, X |-> NoNode, Y |-> NoNode,
     pos |-> 0, end |-> 0]

\* The source text the tree was parsed from.
RECURSIVE ExprText(_)
ExprText(n) ==
    IF n.kind = "BinaryExpr"
    THEN ExprText(n.X) \o <<" ">> \o n.op \o <<" ">> \o ExprText(n.Y)
    ELSE IF n.kind = "ParenExpr" THEN <<"(">> \o ExprText(n.X) \o <<")">>
    ELSE n.text

----------------------------------------------------------------------------
(* internal/evaluator/evaluator.go                                         *)

Nil == [t |-> "nil", v |-> 0]
IntVal(n) == [t |-> "int", v |-> n]
BoolVal(b) == [t |-> "bool", v |-> b]
StrVal(s) == [t |-> "string", v |-> s]

NilTree == [Type |-> "nil"]

\* A value is its dynamic type t and its content v.  An integer's content is
\* the integer; a float's content is the number of halves it holds (2.5 is
\* 5), so that floats that are no integers exist; a slice's content is
\* whether it is nil and its elements; an array's content is its elements;
\* the struct type Counter has the one field N, which is its content.
NumericTypes ==
    [signed |-> {"int", "int8", "int16", "int32", "int64"},
     unsigned |-> {"uint", "uint8", "uint16", "uint32", "uint64"},
     float |-> {"float32", "float64"}]

\* isTruthy that takes every value that is not nil for true
isTruthyNotNil(value) == value.t # "nil"

isTruthy(value) ==
    CASE value.t = "nil" -> FALSE
      [] value.t = "bool" -> value.v
      [] value.t \in NumericTypes.signed \cup NumericTypes.unsigned \cup NumericTypes.float ->
           value.v # 0
      [] value.t = "string" -> value.v # <<>>
      \* !reflect.ValueOf(v).IsZero()
      [] value.t = "[]int" -> ~value.v.isNil
      [] value.t = "[3]int" -> \E i \in 1..Len(value.v) : value.v[i] # 0
      [] OTHER -> value.v # 0

\* getNumericValue that knows the signed integer types only
getNumericValueSigned(v) ==
    IF v.t \in NumericTypes.signed THEN [t |-> "float64", v |-> 2 * v.v] ELSE Nil

\* getNumericValue: the float64 the value widens to, or nil
getNumericValue(v) ==
    IF v.t \in NumericTypes.signed \cup NumericTypes.unsigned THEN [t |-> "float64", v |-> 2 * v.v]
    ELSE IF v.t \in NumericTypes.float THEN [t |-> "float64", v |-> v.v]
    ELSE Nil

compareNumeric(left, right, operator) ==
    LET leftVal == getNumericValue(left)
        rightVal == getNumericValue(right)
    IN IF leftVal = Nil \/ rightVal = Nil THEN FALSE
       ELSE LET l == leftVal.v
                r == rightVal.v IN
            CASE operator = <<"<">> -> l < r
              [] operator = <<"<", "=">> -> l <= r
              [] operator = <<">">> -> l > r
              [] operator = <<">", "=">> -> l >= r
              [] OTHER -> FALSE

DeepEqual(left, right) == left.t = right.t /\ left.v = right.v

\* compareValues that takes a nil operand for unequal to everything
compareValuesNilFalse(left, right, operator) ==
    IF left.t = "nil" \/ right.t = "nil" THEN FALSE
    ELSE IF left.t = "[]int" \/ right.t = "[]int" THEN FALSE
    ELSE CASE operator = <<"=", "=">> -> DeepEqual(left, right)
           [] operator = <<"!", "=">> -> ~DeepEqual(left, right)
           [] operator \in {<<"<">>, <<"<", "=">>, <<">">>, <<">", "=">>} ->
                compareNumeric(left, right, operator)
           [] OTHER -> FALSE

compareValues(left, right, operator) ==
    IF left.t = "nil" \/ right.t = "nil"
    THEN CASE operator = <<"=", "=">> -> left.t = right.t
           [] operator = <<"!", "=">> -> left.t # right.t
           [] OTHER -> FALSE
    \* !leftVal.Type().Comparable() || !rightVal.Type().Comparable()
    ELSE IF left.t = "[]int" \/ right.t = "[]int" THEN FALSE
    ELSE CASE operator = <<"=", "=">> -> DeepEqual(left, right)
           [] operator = <<"!", "=">> -> ~DeepEqual(left, right)
           [] operator \in {<<"<">>, <<"<", "=">>, <<">">>, <<">", "=">>} ->
                compareNumeric(left, right, operator)
           [] OTHER -> FALSE

\* evaluateBinaryExpr that takes || for &&
evaluateBinaryExprAnd(left, right, operator) ==
    CASE operator \in {<<"&", "&">>, <<"|", "|">>} -> left.Result /\ right.Result
      [] operator \in {<<"=", "=">>, <<"!", "=">>, <<"<">>, <<"<", "=">>, <<">">>, <<">", "=">>} ->
           compareValues(left.Value, right.Value, operator)
      [] OTHER -> FALSE

evaluateBinaryExpr(left, right, operator) ==
    CASE operator = <<"&", "&">> -> left.Result /\ right.Result
      [] operator = <<"|", "|">> -> left.Result \/ right.Result
      [] operator \in {<<"=", "=">>, <<"!", "=">>, <<"<">>, <<"<", "=">>, <<">">>, <<">", "=">>} ->
           compareValues(left.Value, right.Value, operator)
      [] OTHER -> FALSE

getBinaryExprType(operator) ==
    CASE operator \in {<<"&", "&">>, <<"|", "|">>} -> "logical"
      [] operator \in {<<"=", "=">>, <<"!", "=">>, <<"<">>, <<"<", "=">>, <<">">>, <<">", "=">>} ->
           "comparison"
      [] OTHER -> "binary"

\* fmt.Sscanf(lit.Value, "%d", &val) on a decimal literal
RECURSIVE DigitsToInt(_, _)
DigitsToInt(s, acc) ==
    IF s = <<>> THEN acc
    ELSE DigitsToInt(Tail(s), acc * 10 + (Codepoint(Head(s)) - 48))

parseLiteral(lit) == IntVal(DigitsToInt(lit.text, 0))

\* extractVariableNames without the skip of the built-in identifiers
RECURSIVE extractVariableNamesAll(_)
extractVariableNamesAll(n) ==
    IF n.kind = "BinaryExpr" THEN extractVariableNamesAll(n.X) \cup extractVariableNamesAll(n.Y)
    ELSE IF n.kind = "ParenExpr" THEN extractVariableNamesAll(n.X)
    ELSE IF n.kind = "Ident" THEN {n.text}
    ELSE {}

\* extractVariableNames: every identifier except true, false and nil.
RECURSIVE extractVariableNames(_)
extractVariableNames(n) ==
    IF n.kind = "BinaryExpr" THEN extractVariableNames(n.X) \cup extractVariableNames(n.Y)
    ELSE IF n.kind = "ParenExpr" THEN extractVariableNames(n.X)
    ELSE IF n.kind = "Ident" /\ n.text \notin {<<"t","r","u","e">>, <<"f","a","l","s","e">>, <<"n","i","l">>}
         THEN {n.text}
    ELSE {}

\* extractVariableValuesFromFrame: nothing when the text does not parse or
\* runtime.FuncForPC(callerFrame) is nil (callerFrame = 0), else a placeholder
\* "<name>" for every name.
extractVariableValuesFromFrame(n, callerFrame) ==
    IF n.kind = "BadExpr" \/ callerFrame = 0 THEN <<>>
    ELSE [name \in extractVariableNames(n) |-> StrVal(<<"<">> \o name \o <<">">>)]

\* mergeVariables where an auto-extracted value wins over a captured one
mergeVariablesAutoFirst(autoExtracted, user) ==
    [name \in DOMAIN autoExtracted \cup DOMAIN user |->
        IF name \in DOMAIN autoExtracted THEN autoExtracted[name] ELSE user[name]]

\* mergeVariables: the captured values override the auto-extracted ones.
mergeVariables(autoExtracted, user) ==
    [name \in DOMAIN autoExtracted \cup DOMAIN user |->
        IF name \in DOMAIN user THEN user[name] ELSE autoExtracted[name]]

\* getNextNodeID on a counter value: the counter after, which is the ID.
getNextNodeID(counter) == counter + 1

\* buildTreeFromAST; the node counter is threaded through the recursion
\* and returned with the tree.
RECURSIVE buildTreeFromAST(_, _, _)
buildTreeFromAST(n, variables, counter) ==
    CASE n.kind = "BinaryExpr" ->
           LET l == buildTreeFromAST(n.X, variables, counter)
               r == buildTreeFromAST(n.Y, variables, l.counter)
               id == getNextNodeID(r.counter)
           IN [tree |-> [ID |-> id, Type |-> getBinaryExprType(n.op), Operator |-> n.op,
                         Left |-> l.tree, Right |-> r.tree, Value |-> Nil,
                         Result |-> evaluateBinaryExpr(l.tree, r.tree, n.op),
                         Text |-> l.tree.Text \o <<" ">> \o n.op \o <<" ">> \o r.tree.Text],
               counter |-> id]
      [] n.kind = "Ident" ->
           LET exists == n.text \in DOMAIN variables
               value == IF exists THEN variables[n.text] ELSE Nil
               id == getNextNodeID(counter)
           IN [tree |-> [ID |-> id, Type |-> "identifier", Operator |-> <<>>,
                         Left |-> NilTree, Right |-> NilTree, Value |-> value,
                         Result |-> exists /\ isTruthy(value), Text |-> n.text],
               counter |-> id]
      [] n.kind = "BasicLit" ->
           LET value == parseLiteral(n)
               id == getNextNodeID(counter)
           IN [tree |-> [ID |-> id, Type |-> "literal", Operator |-> <<>>,
                         Left |-> NilTree, Right |-> NilTree, Value |-> value,
                         Result |-> isTruthy(value), Text |-> n.text],
               counter |-> id]
      [] n.kind = "ParenExpr" -> buildTreeFromAST(n.X, variables, counter)

\* buildEvaluationTree with an error node that leaves Text at its zero value
buildEvaluationTreeNoText(n, variables) ==
    IF n.kind = "BadExpr"
    THEN [tree |-> [ID |-> getNextNodeID(0), Type |-> "error", Operator |-> <<>>,
                    Left |-> NilTree, Right |-> NilTree, Value |-> Nil,
                    Result |-> FALSE, Text |-> <<>>],
          counter |-> getNextNodeID(0)]
    ELSE buildTreeFromAST(n, variables, 0)

\* buildEvaluationTree: nodeCounter = 0, then the error node of a text that
\* does not parse, or the tree of the parsed expression.
buildEvaluationTree(n, variables) ==
    IF n.kind = "BadExpr"
    THEN [tree |-> [ID |-> getNextNodeID(0), Type |-> "error", Operator |-> <<>>,
                    Left |-> NilTree, Right |-> NilTree, Value |-> Nil,
                    Result |-> FALSE, Text |-> n.text],
          counter |-> getNextNodeID(0)]
    ELSE buildTreeFromAST(n, variables, 0)

\* EvaluateWithValues / Evaluate
EvaluateWithValues(n, callerFrame, user) ==
    buildEvaluationTree(n, mergeVariables(extractVariableValuesFromFrame(n, callerFrame), user))

----------------------------------------------------------------------------
(* internal/formatter/visual.go: value formatting                          *)

RECURSIVE IntToDigits(_)
IntToDigits(n) ==
    LET d == <<"0", "1", "2", "3", "4", "5", "6", "7", "8", "9">> IN
    IF n < 0 THEN <<"-">> \o IntToDigits(0 - n)
    ELSE IF n < 10 THEN <<d[n + 1]>>
    ELSE IntToDigits(n \div 10) \o <<d[(n % 10) + 1]>>

HexDigit(n) ==
    <<"0", "1", "2", "3", "4", "5", "6", "7", "8", "9", "a", "b", "c", "d", "e", "f">>[n + 1]

\* strconv.Quote of the first `room` bytes of s, without the surrounding quotes:
\* a rune cut by the byte slice is printed byte by byte as \xhh.
RECURSIVE QuoteBody(_, _)
QuoteBody(s, room) ==
    IF s = <<>> \/ room <= 0 THEN <<>>
    ELSE LET b == EncodeRune(Head(s)) IN
         IF Len(b) <= room THEN <<Head(s)>> \o QuoteBody(Tail(s), room - Len(b))
         ELSE LET RECURSIVE esc(_)
                  esc(k) == IF k > room THEN <<>>
                            ELSE <<"\\", "x", HexDigit(b[k] \div 16), HexDigit(b[k] % 16)>>
                                 \o esc(k + 1)
              IN esc(1)

formatValueCompact(v) ==
    CASE v.t = "nil" -> <<"n", "i", "l">>
      [] v.t = "string" ->
           IF ByteLen(v.v) > 10
           THEN <<"\"">> \o QuoteBody(v.v, 10) \o <<"\"", ".", ".", ".">>
           ELSE <<"\"">> \o QuoteBody(v.v, ByteLen(v.v)) \o <<"\"">>
      [] v.t = "bool" -> IF v.v THEN <<"t", "r", "u", "e">> ELSE <<"f", "a", "l", "s", "e">>
      [] v.t = "int" -> IntToDigits(v.v)

\* fmt.Sprintf("%v", tree.Result)
FormatBool(b) == IF b THEN <<"t", "r", "u", "e">> ELSE <<"f", "a", "l", "s", "e">>

----------------------------------------------------------------------------
(* internal/formatter/visual.go: position mapper                           *)

\* calculateCharPositions: byte, rune and visual offset of every rune.
RECURSIVE calculateCharPositionsFrom(_, _, _, _)
calculateCharPositionsFrom(s, bytePos, runePos, visualPos) ==
    IF s = <<>> THEN <<>>
    ELSE <<[BytePos |-> bytePos, RunePos |-> runePos, VisualPos |-> visualPos]>>
         \o calculateCharPositionsFrom(Tail(s), bytePos + RuneLen(Head(s)), runePos + 1,
                                       visualPos + (IF isWideRune(Head(s)) THEN 2 ELSE 1))

calculateCharPositions(s) == calculateCharPositionsFrom(s, 0, 0, 0)

\* token.NewFileSet(): a file set holding no file.
NewFileSet == {}

\* createPositionMapper: the mapper's file set is a new one; the parser
\* registered the expression in a file set of its own.
createPositionMapper(expr) ==
    [fset |-> NewFileSet, expr |-> expr, charPositions |-> calculateCharPositions(expr)]

\* fset.Position(p).Offset: the offset in the file of fset that holds p;
\* the zero Position when no file of fset holds p.
FileSetOffset(fset, p) ==
    IF \E f \in fset : p >= f.base /\ p <= f.base + f.size
    THEN LET f == CHOOSE g \in fset : p >= g.base /\ p <= g.base + g.size IN p - f.base
    ELSE 0

getASTNodePosition(node, mapper) ==
    IF node.kind = "none" THEN <<0, 0>>
    ELSE <<FileSetOffset(mapper.fset, node.pos), FileSetOffset(mapper.fset, node.end)>>

\* byteToVisualPos: the column of the rune at or before the byte offset,
\* plus the offset inside that rune.
byteToVisualPos(bytePos, charPositions) ==
    IF bytePos < 0 \/ Len(charPositions) = 0 THEN 0
    ELSE LET at == {i \in 1..Len(charPositions) : charPositions[i].BytePos <= bytePos} IN
         IF at = {} THEN 0
         ELSE LET i == CHOOSE k \in at : \A m \in at : m <= k IN
              charPositions[i].VisualPos + (bytePos - charPositions[i].BytePos)

nodeMatches(n, t) ==
    CASE n.kind = "Ident" -> t.Type = "identifier" /\ n.text = t.Text
      [] n.kind = "BasicLit" -> t.Type = "literal" /\ n.text = t.Text
      [] n.kind = "BinaryExpr" -> t.Type \in {"comparison", "logical"} /\ n.op = t.Operator
      [] OTHER -> FALSE

\* The ast.Inspect callback of collectPositionsWithASTDepth: a match is
\* recorded and its subtree skipped, the walk goes on with the siblings, so the
\* last such match is the one kept.
RECURSIVE InspectTarget(_, _, _)
InspectTarget(n, t, found) ==
    IF n.kind = "none" THEN found
    ELSE IF nodeMatches(n, t) THEN n
    ELSE IF n.kind = "BinaryExpr" THEN InspectTarget(n.Y, t, InspectTarget(n.X, t, found))
    ELSE found

\* strings.Index on the byte string between two offsets
findOperatorInNode(node, operator, mapper) ==
    IF node.kind = "BinaryExpr"
    THEN LET leftEnd == FileSetOffset(mapper.fset, node.X.end)
             rightStart == FileSetOffset(mapper.fset, node.Y.pos)
             b == Bytes(mapper.expr)
             opIndex == IF leftEnd >= 0 /\ rightStart <= Len(b)
                        THEN IndexFrom(SubSeq(b, leftEnd + 1, rightStart), Bytes(operator), 0)
                        ELSE -1
         IN IF opIndex >= 0 THEN leftEnd + opIndex ELSE leftEnd
    ELSE 0

ValuePosition(expression, value, startPos, endPos, visualPos, visualEnd, depth, priority) ==
    [Expression |-> expression, Value |-> value, StartPos |-> startPos, EndPos |-> endPos,
     VisualPos |-> visualPos, VisualEnd |-> visualEnd, Depth |-> depth, Priority |-> priority]

\* The dedup key of a position: fmt.Sprintf("%d-%s" / "%d-lit-%s" / "%d-op-%s", ...)
SeenKey(visual, class, text) == <<visual, class, text>>

\* collectPositionsWithASTDepth; acc is the pair (positions, seen) the
\* recursion appends to.
RECURSIVE collectPositionsWithASTDepth(_, _, _, _, _)
collectPositionsWithASTDepth(t, astNode, mapper, acc, depth) ==
    IF t.Type = "nil" THEN acc
    ELSE
    LET targetNode == InspectTarget(astNode, t, NoNode)
        span == getASTNodePosition(targetNode, mapper)
        startPos == span[1]
        endPos == span[2]
        startVisual == byteToVisualPos(startPos, mapper.charPositions)
        endVisual == byteToVisualPos(endPos, mapper.charPositions)
        opPos == findOperatorInNode(targetNode, t.Operator, mapper)
        opVisual == byteToVisualPos(opPos, mapper.charPositions)
        key == CASE t.Type = "identifier" -> SeenKey(startVisual, "", t.Text)
                 [] t.Type = "literal" -> SeenKey(startVisual, "lit", t.Text)
                 [] OTHER -> SeenKey(opVisual, "op", t.Operator)
        new == CASE t.Type = "identifier" ->
                      ValuePosition(t.Text, formatValueCompact(t.Value), startPos, endPos,
                                    startVisual, endVisual, depth, 20)
                 [] t.Type = "literal" ->
                      ValuePosition(t.Text, formatValueCompact(t.Value), startPos, endPos,
                                    startVisual, endVisual, depth, 15)
                 [] OTHER ->
                      ValuePosition(t.Operator, FormatBool(t.Result), opPos,
                                    opPos + ByteLen(t.Operator), opVisual,
                                    opVisual + visualWidth(t.Operator), depth + 1, 5)
        wanted == /\ targetNode.kind # "none"
                  /\ CASE t.Type \in {"identifier", "literal"} ->
                            t.Value.t # "nil" /\ t.Text # <<>>
                       [] t.Type \in {"comparison", "logical"} -> t.Operator # <<>>
                       [] OTHER -> FALSE
        here == IF wanted /\ key \notin acc.seen
                THEN [positions |-> Append(acc.positions, new), seen |-> acc.seen \cup {key}]
                ELSE acc
        nextDepth == depth + 1
        \* processChildrenWithASTDepth: Left, then Right (no node here has Children)
        afterLeft == collectPositionsWithASTDepth(t.Left, astNode, mapper, here, nextDepth)
    IN collectPositionsWithASTDepth(t.Right, astNode, mapper, afterLeft, nextDepth)

\* sort.Slice on a slice of at most 12 elements is an insertion sort:
\* element x moves left past every element it is less than.
RECURSIVE InsertByVisualPos(_, _)
InsertByVisualPos(sorted, x) ==
    IF sorted = <<>> THEN <<x>>
    ELSE LET last == sorted[Len(sorted)]
             less == IF x.VisualPos # last.VisualPos THEN x.VisualPos < last.VisualPos
                     ELSE x.Priority > last.Priority
         IN IF less THEN Append(InsertByVisualPos(SubSeq(sorted, 1, Len(sorted) - 1), x), last)
            ELSE Append(sorted, x)

RECURSIVE SortByVisualPos(_, _)
SortByVisualPos(done, rest) ==
    IF rest = <<>> THEN done
    ELSE SortByVisualPos(InsertByVisualPos(done, Head(rest)), Tail(rest))

\* collectPositionsDepth, the fallback collector: every text is looked up
\* with strings.Index in the whole expression.
RECURSIVE collectPositionsDepth(_, _, _, _, _)
collectPositionsDepth(t, expression, mapper, acc, depth) ==
    IF t.Type = "nil" THEN acc
    ELSE
    LET isValue == t.Type \in {"identifier", "literal"}
        isOperator == t.Type \in {"comparison", "logical"}
        text == IF isValue THEN t.Text ELSE t.Operator
        pos == stringsIndex(expression, text)
        mapped == byteToVisualPos(pos, mapper.charPositions)
        visualPos == IF mapped = 0 /\ pos # 0 THEN pos ELSE mapped
        key == SeenKey(visualPos,
                       CASE t.Type = "identifier" -> ""
                         [] t.Type = "literal" -> "lit"
                         [] t.Type = "comparison" -> "op"
                         [] OTHER -> "log",
                       text)
        new == ValuePosition(text,
                             IF isValue THEN formatValueCompact(t.Value) ELSE FormatBool(t.Result),
                             pos, pos + ByteLen(text), visualPos, visualPos + visualWidth(text),
                             IF isValue THEN depth ELSE depth + 1,
                             CASE t.Type = "identifier" -> 20
                               [] t.Type = "literal" -> 15
                               [] t.Type = "comparison" -> 5
                               [] OTHER -> 3)
        wanted == /\ \/ isValue /\ t.Value.t # "nil" /\ t.Text # <<>>
                     \/ isOperator /\ t.Operator # <<>>
                  /\ pos # -1
        here == IF wanted /\ key \notin acc.seen
                THEN [positions |-> Append(acc.positions, new), seen |-> acc.seen \cup {key}]
                ELSE acc
        afterLeft == collectPositionsDepth(t.Left, expression, mapper, here, depth + 1)
    IN collectPositionsDepth(t.Right, expression, mapper, afterLeft, depth + 1)

\* extractAllPositions (fallback method), with a position mapper of its own
extractAllPositions(t, expression) ==
    SortByVisualPos(<<>>, collectPositionsDepth(t, expression, createPositionMapper(expression),
                                                [positions |-> <<>>, seen |-> {}], 0).positions)

\* extractAllPositionsWithAST: the fallback when the text does not parse or
\* the AST-based collection found nothing.
extractAllPositionsWithAST(t, astNode, mapper) ==
    IF astNode.kind = "BadExpr" THEN extractAllPositions(t, mapper.expr)
    ELSE CHOOSE sorted \in
             {IF Len(got.positions) = 0 THEN extractAllPositions(t, mapper.expr)
              ELSE SortByVisualPos(<<>>, got.positions)
              : got \in {collectPositionsWithASTDepth(t, astNode, mapper,
                                                      [positions |-> <<>>, seen |-> {}], 0)}}
             : TRUE

\* findActualPosition: the byte offset of the first occurrence of the text.
findActualPosition(element, expr) ==
    LET pos == stringsIndex(expr, element)
        spaced == stringsIndex(expr, <<" ">> \o element \o <<" ">>)
    IN IF pos # -1 THEN pos
       ELSE IF (ByteLen(element) = 1 \/ (ByteLen(element) = 2 /\ stringsIndex(element, <<"=">>) # -1))
               /\ spaced # -1
            THEN spaced + 1
       ELSE -1

correctVisualPosition(pos, expr) ==
    LET actualPos == findActualPosition(pos.Expression, expr) IN
    IF actualPos >= 0
    THEN [pos EXCEPT !.VisualPos = actualPos,
                     !.VisualEnd = actualPos + visualWidth(pos.Expression)]
    ELSE pos

correctVisualPositions(ps, expr) ==
    [i \in 1..Len(ps) |-> correctVisualPosition(ps[i], expr)]

----------------------------------------------------------------------------
(* internal/formatter/visual.go: layer assigner                            *)

VisualNode(pos) ==
    [Position |-> pos, EvaluationDepth |-> pos.Depth, VisualLayer |-> -1,
     PipePosition |-> pos.VisualPos]

\* The range a node would take if its expression text were printed under
\* the pipe instead of its value.
getExpressionRange(node) ==
    [Start |-> node.PipePosition,
     End |-> node.PipePosition + visualWidth(node.Position.Expression)]

\* getValueRange: [PipePosition, PipePosition + visual width of the value)
getValueRange(node) ==
    [Start |-> node.PipePosition,
     End |-> node.PipePosition + visualWidth(node.Position.Value)]

rangesOverlap(start1, end1, start2, end2) == ~(end1 <= start2 \/ end2 <= start1)

\* canPlaceInLayer that finds room in every layer
canPlaceInLayerAlways(node, layer) == TRUE

canPlaceInLayer(node, layer) ==
    \A i \in 1..Len(layer) :
        ~rangesOverlap(getValueRange(node).Start, getValueRange(node).End,
                       getValueRange(layer[i]).Start, getValueRange(layer[i]).End)

\* The sort.Slice of assignVisualLayers: priority descending, then column ascending.
RECURSIVE InsertByPriority(_, _)
InsertByPriority(sorted, x) ==
    IF sorted = <<>> THEN <<x>>
    ELSE LET last == sorted[Len(sorted)]
             less == IF x.Position.Priority # last.Position.Priority
                     THEN x.Position.Priority > last.Position.Priority
                     ELSE x.PipePosition < last.PipePosition
         IN IF less THEN Append(InsertByPriority(SubSeq(sorted, 1, Len(sorted) - 1), x), last)
            ELSE Append(sorted, x)

RECURSIVE SortByPriority(_, _)
SortByPriority(done, rest) ==
    IF rest = <<>> THEN done
    ELSE CHOOSE out \in {SortByPriority(next, tl) :
                            next \in {InsertByPriority(done, Head(rest))}, tl \in {Tail(rest)}} : TRUE

\* The placement loop with the last layer that accepts the node for the first
RECURSIVE PlaceNodesLastFit(_, _)
PlaceNodesLastFit(nodes, layers) ==
    IF nodes = <<>> THEN layers
    ELSE LET node == Head(nodes)
             fits == {k \in 1..Len(layers) : canPlaceInLayer(node, layers[k])}
             placed ==
                 IF fits # {}
                 THEN LET k == CHOOSE m \in fits : \A o \in fits : m >= o IN
                      [layers EXCEPT ![k] = Append(@, node)]
                 ELSE Append(layers, <<node>>)
         IN CHOOSE out \in {PlaceNodesLastFit(tl, next) : tl \in {Tail(nodes)}, next \in {placed}} : TRUE

\* The placement loop without a new layer for a node no layer accepts
RECURSIVE PlaceNodesNoNewLayer(_, _)
PlaceNodesNoNewLayer(nodes, layers) ==
    IF nodes = <<>> THEN layers
    ELSE LET node == Head(nodes)
             fits == {k \in 1..Len(layers) : canPlaceInLayer(node, layers[k])}
             placed ==
                 IF fits # {}
                 THEN LET k == CHOOSE m \in fits : \A o \in fits : m <= o IN
                      [layers EXCEPT ![k] = Append(@, node)]
                 ELSE IF layers = <<>> THEN <<<<node>>>>
                 ELSE layers
         IN CHOOSE out \in {PlaceNodesNoNewLayer(tl, next) : tl \in {Tail(nodes)}, next \in {placed}} : TRUE

\* The placement loop of assignVisualLayers: the first layer that accepts the
\* node, else a new layer.  The node is copied into the layer before its
\* VisualLayer field is set, so the copies keep VisualLayer = -1.
RECURSIVE PlaceNodes(_, _)
PlaceNodes(nodes, layers) ==
    IF nodes = <<>> THEN layers
    ELSE LET node == Head(nodes)
             fits == {k \in 1..Len(layers) : canPlaceInLayer(node, layers[k])}
             placed ==
                 IF fits # {}
                 THEN LET k == CHOOSE m \in fits : \A o \in fits : m <= o IN
                      [layers EXCEPT ![k] = Append(@, node)]
                 ELSE Append(layers, <<node>>)
         IN CHOOSE out \in {PlaceNodes(tl, next) : tl \in {Tail(nodes)}, next \in {placed}} : TRUE

assignVisualLayers(ps) ==
    CHOOSE out \in
        {[MaxLayer |-> IF Len(layers) = 0 THEN 0 ELSE Len(layers) - 1,
          Layers |-> layers,
          PipePositions |-> {ps[i].VisualPos : i \in 1..Len(ps)}] :
            layers \in {PlaceNodes(nodes, <<>>) :
                           nodes \in {SortByPriority(<<>>, [i \in 1..Len(ps) |-> VisualNode(ps[i])])}}} : TRUE

----------------------------------------------------------------------------
(* internal/formatter/visual.go: colour configuration.                     *)
(* A colour object of the colour library is its attribute codes and its    *)
(* own noColor flag; with no flag of its own it follows the global NoColor.*)

IsSet(e, name) == e[name] # ""

shouldEnableColors(e) ==
    IF IsSet(e, "FORCE_COLOR") THEN TRUE
    ELSE IF IsSet(e, "NO_COLOR") THEN FALSE
    ELSE TRUE

\* color.New(attrs...): the object disables itself when NO_COLOR is set at
\* the time it is created.
colorNew(attrs, e) == [params |-> attrs, noColor |-> IsSet(e, "NO_COLOR")]

createPipeColorPalette(e) ==
    <<colorNew(<<36>>, e), colorNew(<<35>>, e), colorNew(<<92>>, e), colorNew(<<93>>, e),
      colorNew(<<94>>, e), colorNew(<<95>>, e), colorNew(<<96>>, e), colorNew(<<97>>, e)>>

\* setupColorConfig: the configuration it returns, the value it stores in
\* the global color.NoColor; NO_COLOR is cleared while the colour objects are
\* created when FORCE_COLOR overrides it, and restored afterwards.
setupColorConfig(e) ==
    LET colorsEnabled == shouldEnableColors(e)
        hadNoColor == colorsEnabled /\ IsSet(e, "FORCE_COLOR") /\ IsSet(e, "NO_COLOR")
        during == IF hadNoColor THEN [e EXCEPT !["NO_COLOR"] = ""] ELSE e
    IN [ColorsEnabled |-> colorsEnabled,
        HeaderColor |-> colorNew(<<31, 1>>, during),
        PipeColor |-> colorNew(<<90>>, during),
        VariableColor |-> colorNew(<<34>>, during),
        TrueColor |-> colorNew(<<32>>, during),
        FalseColor |-> colorNew(<<31>>, during),
        OperatorColor |-> colorNew(<<33>>, during),
        PipeColorPalette |-> createPipeColorPalette(during),
        PipeColorsEnabled |-> e["DIAGASSERT_PIPE_COLORS"] # "false"]

RECURSIVE JoinCodes(_)
JoinCodes(codes) ==
    IF Len(codes) = 1 THEN IntToDigits(codes[1])
    ELSE IntToDigits(codes[1]) \o <<";">> \o JoinCodes(Tail(codes))

\* An SGR escape sequence: ESC [ codes m
Escape(codes) == <<"ESC", "[">> \o JoinCodes(codes) \o <<"m">>

\* The reset the library writes after the text: 22 for bold, 0 for a colour.
ResetCodes(params) == [i \in 1..Len(params) |-> IF params[i] = 1 THEN 22 ELSE 0]

\* (*color.Color).Sprint
Sprint(c, text, globalNoColor) ==
    IF c.noColor \/ globalNoColor THEN text
    ELSE Escape(c.params) \o text \o Escape(ResetCodes(c.params))

ForceBoth(e) == IsSet(e, "FORCE_COLOR") /\ IsSet(e, "NO_COLOR")

colorizeHeader(f, text, e, globalNoColor) ==
    IF ~f.ColorsEnabled THEN text
    ELSE IF ForceBoth(e) THEN Escape(<<31, 1>>) \o text \o Escape(<<0, 22>>)
    ELSE Sprint(f.HeaderColor, text, globalNoColor)

colorizeValue(f, value, isOperator, e, globalNoColor) ==
    IF ~f.ColorsEnabled THEN value
    ELSE IF ForceBoth(e)
         THEN IF isOperator THEN Escape(<<33>>) \o value \o Escape(<<0>>)
              ELSE IF value = <<"t", "r", "u", "e">> THEN Escape(<<32>>) \o value \o Escape(<<0>>)
              ELSE IF value = <<"f", "a", "l", "s", "e">> THEN Escape(<<31>>) \o value \o Escape(<<0>>)
              ELSE Escape(<<34>>) \o value \o Escape(<<0>>)
    ELSE IF isOperator THEN Sprint(f.OperatorColor, value, globalNoColor)
    ELSE IF value = <<"t", "r", "u", "e">> THEN Sprint(f.TrueColor, value, globalNoColor)
    ELSE IF value = <<"f", "a", "l", "s", "e">> THEN Sprint(f.FalseColor, value, globalNoColor)
    ELSE Sprint(f.VariableColor, value, globalNoColor)

\* strings.ReplaceAll(line, "|", coloured pipe)
ReplaceAllPipes(line, pipe) ==
    Concat([i \in 1..Len(line) |-> IF line[i] = "|" THEN pipe ELSE <<line[i]>>])

colorizePipeLine(f, line, e, globalNoColor) ==
    IF ~f.ColorsEnabled THEN line
    ELSE IF ForceBoth(e) THEN ReplaceAllPipes(line, Escape(<<90>>) \o <<"|">> \o Escape(<<0>>))
    ELSE ReplaceAllPipes(line, Sprint(f.PipeColor, <<"|">>, globalNoColor))

\* A Go int of 64 bits in two's complement: four limbs of 16 bits, the
\* least significant first.  Arithmetic wraps around as the machine's does.
Limb == 65536

\* simpleHash: hash*31 + code point + byte index of the rune, over the runes,
\* and -hash for a negative hash.
RECURSIVE simpleHashFrom(_, _, _)
simpleHashFrom(s, i, hash) ==
    LET \* x*31 + add, and -x, both modulo 2^64
        mulAdd(x, add) ==
            LET m1 == x[1] * 31 + add
                m2 == x[2] * 31 + m1 \div Limb
                m3 == x[3] * 31 + m2 \div Limb
                m4 == x[4] * 31 + m3 \div Limb
            IN <<m1 % Limb, m2 % Limb, m3 % Limb, m4 % Limb>>
        neg(x) ==
            LET n1 == (Limb - 1 - x[1]) + 1
                n2 == (Limb - 1 - x[2]) + n1 \div Limb
                n3 == (Limb - 1 - x[3]) + n2 \div Limb
                n4 == (Limb - 1 - x[4]) + n3 \div Limb
            IN <<n1 % Limb, n2 % Limb, n3 % Limb, n4 % Limb>>
    IN IF s = <<>> THEN (IF hash[4] >= Limb \div 2 THEN neg(hash) ELSE hash)
       ELSE simpleHashFrom(Tail(s), i + RuneLen(Head(s)), mulAdd(hash, Codepoint(Head(s)) + i))

simpleHash(s) == simpleHashFrom(s, 0, <<0, 0, 0, 0>>)

\* assignPipeColor with the first palette entry, not the default pipe colour,
\* for a formatter without pipe colours
assignPipeColorIndexNoDefault(f, expression) ==
    IF ~f.ColorsEnabled \/ ~f.PipeColorsEnabled THEN 0
    ELSE simpleHash(expression)[1] % Len(f.PipeColorPalette)

\* assignPipeColor: the index (from 0) into the palette, or -1 for the default
\* pipe colour.  hash % len is Go's remainder, which has the sign of hash.
assignPipeColorIndex(f, expression) ==
    IF ~f.ColorsEnabled \/ ~f.PipeColorsEnabled THEN -1
    ELSE IF Len(f.PipeColorPalette) = 0 THEN -1
    ELSE LET n == Len(f.PipeColorPalette)
             rem(x) == LET r4 == x[4] % n
                           r3 == (r4 * Limb + x[3]) % n
                           r2 == (r3 * Limb + x[2]) % n
                       IN (r2 * Limb + x[1]) % n
             complement(x) == [k \in 1..4 |-> Limb - 1 - x[k]]
         IN CHOOSE r \in {IF hash[4] >= Limb \div 2 THEN 0 - ((rem(complement(hash)) + 1) % n)
                          ELSE rem(hash) : hash \in {simpleHash(expression)}} : TRUE

assignPipeColor(f, expression) ==
    IF assignPipeColorIndex(f, expression) = -1 THEN f.PipeColor
    ELSE f.PipeColorPalette[assignPipeColorIndex(f, expression) + 1]

\* forceColorPipe: the palette entry equal to the colour decides the code; cyan otherwise.
forceColorPipe(f, text, pipeColor) ==
    LET at == {i \in 1..Len(f.PipeColorPalette) : f.PipeColorPalette[i] = pipeColor} IN
    IF at # {}
    THEN LET i == CHOOSE k \in at : \A m \in at : k <= m IN
         Escape(f.PipeColorPalette[i].params) \o text \o Escape(<<0>>)
    ELSE Escape(<<36>>) \o text \o Escape(<<0>>)

----------------------------------------------------------------------------
(* internal/formatter/visual.go: renderer                                  *)

\* The width added to the expression's width for every rendered line.
LineMargin == 100

Spaces(n) == [i \in 1..n |-> " "]

\* strings.TrimRight that trims nothing
TrimRightNothing(s) == s

\* strings.TrimRight(s, " ")
TrimRight(s) ==
    LET kept == {i \in 1..Len(s) : s[i] # " "} IN
    IF kept = {} THEN <<>> ELSE SubSeq(s, 1, CHOOSE i \in kept : \A j \in kept : j <= i)

\* strings.Replace(s, old, new, 1); a match starts at a rune boundary, so the
\* search is done on the runes.
ReplaceFirst(s, old, new) ==
    LET i == IndexFrom(s, old, 0) IN
    IF i = -1 THEN s
    ELSE SubSeq(s, 1, i) \o new \o SubSeq(s, i + Len(old) + 1, Len(s))

isOperatorValue(expression) ==
    expression \in {<<">">>, <<"<">>, <<">", "=">>, <<"<", "=">>, <<"=", "=">>, <<"!", "=">>,
                    <<"&", "&">>, <<"|", "|">>, <<"!">>, <<"+">>, <<"-">>, <<"*">>, <<"/">>,
                    <<"%">>}

\* The pipe decision restricted to the nodes of the line's own layer.
ShowPipeOwnLayerOnly(la, layerIdx, pipePos) ==
    \E i \in 1..Len(la.Layers[layerIdx + 1]) :
        la.Layers[layerIdx + 1][i].PipePosition = pipePos

\* The pipe decision of buildPowerAssertTreeWithLayers for one column of the
\* pipe-position set: a node of this layer, or of a deeper layer, stands there.
ShowPipe(la, layerIdx, pipePos) ==
    \/ \E i \in 1..Len(la.Layers[layerIdx + 1]) :
          la.Layers[layerIdx + 1][i].PipePosition = pipePos
    \/ /\ layerIdx < la.MaxLayer
       /\ \E k \in (layerIdx + 2)..Len(la.Layers) :
             \E i \in 1..Len(la.Layers[k]) : la.Layers[k][i].PipePosition = pipePos

PipeRunes(la, layerIdx, width) ==
    [i \in 1..width |->
        IF (i - 1) \in la.PipePositions /\ ShowPipe(la, layerIdx, i - 1) THEN "|" ELSE " "]

\* The nodes of the layers from layerIdx on, in the order the pipeToValue
\* map of colorizePerValuePipeLine is written.
RECURSIVE NodesFrom(_, _)
NodesFrom(la, k) ==
    IF k > Len(la.Layers) THEN <<>> ELSE la.Layers[k] \o NodesFrom(la, k + 1)

colorizePerValuePipeLine(f, line, la, layerIdx, e, globalNoColor) ==
    IF ~f.ColorsEnabled \/ ~f.PipeColorsEnabled
    THEN colorizePipeLine(f, line, e, globalNoColor)
    ELSE
    LET nodes == NodesFrom(la, layerIdx + 1)
        \* pipeToValue[pos]: the last node written for the column
        Has(pos) == \E i \in 1..Len(nodes) : nodes[i].PipePosition = pos
        ValueAt(pos) ==
            LET at == {i \in 1..Len(nodes) : nodes[i].PipePosition = pos} IN
            nodes[CHOOSE i \in at : \A j \in at : j <= i].Position
        Pipe(pos) ==
            IF Has(pos)
            THEN LET pipeColor == assignPipeColor(f, ValueAt(pos).Expression) IN
                 IF ForceBoth(e) THEN forceColorPipe(f, <<"|">>, pipeColor)
                 ELSE Sprint(pipeColor, <<"|">>, globalNoColor)
            ELSE Sprint(f.PipeColor, <<"|">>, globalNoColor)
        \* the loop over the runes of the line, pos counting from 0
        Walk == Concat([i \in 1..Len(line) |->
                           IF line[i] = "|" THEN Pipe(i - 1) ELSE <<line[i]>>])
    IN IF Len(nodes) = 0 THEN colorizePipeLine(f, line, e, globalNoColor) ELSE Walk

\* The first loop of buildColoredValueLine: every value is written rune by
\* rune from index PipePosition of a line of spaces; a cell is written once.
RECURSIVE PlaceValues(_, _, _)
PlaceValues(layer, lineRunes, coloredPositions) ==
    IF layer = <<>> THEN lineRunes
    ELSE LET value == Head(layer).Position.Value
             startPos == Head(layer).PipePosition
             cells == {c \in startPos..(startPos + Len(value) - 1) :
                          c < Len(lineRunes) /\ c \notin coloredPositions}
         IN PlaceValues(Tail(layer),
                        [c \in 1..Len(lineRunes) |->
                            IF (c - 1) \in cells THEN value[c - startPos] ELSE lineRunes[c]],
                        coloredPositions \cup cells)

\* The second loop: each value's first occurrence in the line so far is
\* replaced by its coloured form.
RECURSIVE ColorValues(_, _, _, _, _)
ColorValues(f, layer, line, e, globalNoColor) ==
    IF layer = <<>> THEN line
    ELSE LET value == Head(layer).Position.Value
             coloredValue == colorizeValue(f, value, isOperatorValue(Head(layer).Position.Expression),
                                           e, globalNoColor)
         IN ColorValues(f, Tail(layer), ReplaceFirst(line, value, coloredValue), e, globalNoColor)

buildColoredValueLine(f, layer, maxWidth, e, globalNoColor) ==
    LET plainLine == PlaceValues(layer, Spaces(maxWidth), {}) IN
    IF ~f.ColorsEnabled THEN plainLine
    ELSE ColorValues(f, layer, plainLine, e, globalNoColor)

\* The layer loop of buildPowerAssertTreeWithLayers.
RECURSIVE LayerLines(_, _, _, _, _, _)
LayerLines(f, exprWidth, la, layerIdx, e, globalNoColor) ==
    IF layerIdx > la.MaxLayer THEN <<>>
    ELSE IF layerIdx >= Len(la.Layers) \/ Len(la.Layers[layerIdx + 1]) = 0
         THEN LayerLines(f, exprWidth, la, layerIdx + 1, e, globalNoColor)
    ELSE LET pipeStr == TrimRight(colorizePerValuePipeLine(
                            f, PipeRunes(la, layerIdx, exprWidth + LineMargin), la, layerIdx,
                            e, globalNoColor))
             valueStr == TrimRight(buildColoredValueLine(
                            f, la.Layers[layerIdx + 1], exprWidth + LineMargin, e, globalNoColor))
         IN (IF pipeStr # <<>> THEN <<pipeStr>> ELSE <<>>)
            \o (IF valueStr # <<>> THEN <<valueStr>> ELSE <<>>)
            \o (IF layerIdx < la.MaxLayer THEN << <<>> >> ELSE <<>>)
            \o LayerLines(f, exprWidth, la, layerIdx + 1, e, globalNoColor)

buildPowerAssertTreeWithLayers(f, expr, ps, e, globalNoColor) ==
    IF Len(ps) = 0 THEN << <<"f", "a", "l", "s", "e">> >>
    ELSE LayerLines(f, visualWidth(expr), assignVisualLayers(ps), 0, e, globalNoColor)

colorizePipe(f, text, e, globalNoColor) ==
    IF ~f.ColorsEnabled THEN text
    ELSE IF ForceBoth(e) THEN Escape(<<90>>) \o text \o Escape(<<0>>)
    ELSE Sprint(f.PipeColor, text, globalNoColor)

\* fmt.Sprintf("  assert(%s)\n", expr)
AssertLine(expression) == <<" ", " ", "a", "s", "s", "e", "r", "t", "(">> \o expression \o <<")">>

\* The lines formatPowerAssertStyle writes for a result with a tree: the
\* assert line, then every line of the picture (bound once, as ls) behind
\* nine spaces.
WriteLines(expression, lines) ==
    <<AssertLine(expression)>>
    \o CHOOSE indented \in {[i \in 1..Len(ls) |-> Spaces(9) \o ls[i]] : ls \in {lines}} : TRUE

\* formatSimpleAssertStyle, for a result without a tree
formatSimpleAssertStyle(f, expression, e, globalNoColor) ==
    LET padding == Spaces(visualWidth(expression)) IN
    << AssertLine(expression),
       Spaces(9) \o padding \o colorizePipe(f, <<"|">>, e, globalNoColor),
       Spaces(9) \o padding \o colorizeValue(f, <<"f", "a", "l", "s", "e">>, FALSE, e, globalNoColor) >>

----------------------------------------------------------------------------
(* One failed assertion rendered end to end:                               *)
(* buildDiagnosticOutputWithContext -> Evaluate -> NewVisualFormatter ->   *)
(* formatPowerAssertStyle.                                                 *)

\* The largest number of comparisons joined by && in an expression.
MaxTerms == 2

\* The program counter runtime.Caller hands to the evaluator: some function's.
CallerPC == 1

Id(s) == [kind |-> "Ident", text |-> s]
Lit(s) == [kind |-> "BasicLit", text |-> s]

Identifiers == {<<"a">>, <<"a", "b">>, <<"U5E74", "U9F62">>}
CmpOps == {<<">">>, <<"=", "=">>}

\* The first comparison of an expression, and the ones that may follow it.
HeadTerms ==
    {[L |-> Id(l), op |-> o, R |-> r] :
        l \in Identifiers, o \in CmpOps, r \in {Id(<<"b">>), Lit(<<"4">>)}}
TailTerms ==
    {[L |-> Id(<<"b">>), op |-> <<">">>, R |-> Lit(<<"4">>)],
     [L |-> Id(<<"a">>), op |-> <<">">>, R |-> Lit(<<"4">>)],
     [L |-> Id(<<"b">>), op |-> <<>>, R |-> Id(<<"b">>)]}

RECURSIVE TermLists(_)
TermLists(n) ==
    IF n = 1 THEN {<<h>> : h \in HeadTerms}
    ELSE TermLists(n - 1)
         \cup {Append(l, t) : l \in {x \in TermLists(n - 1) : Len(x) = n - 1}, t \in TailTerms}

\* The values captured with V("a", ...) and V("b", ...), if any.
CapturedValues ==
    {[n \in names |-> IF n = <<"a">> THEN va ELSE vb] :
        names \in SUBSET {<<"a">>, <<"b">>},
        va \in {IntVal(3), StrVal(<<"U5E74">>)}, vb \in {IntVal(4)}}

Environments ==
    [{"FORCE_COLOR", "NO_COLOR"} -> {"", "1"}]

EnvWith(e, pipeColors) ==
    [n \in {"FORCE_COLOR", "NO_COLOR", "DIAGASSERT_PIPE_COLORS"} |->
        IF n = "DIAGASSERT_PIPE_COLORS" THEN pipeColors ELSE e[n]]

NoFormatter == [ColorsEnabled |-> FALSE, PipeColorsEnabled |-> FALSE, unset |-> TRUE]
NoAssignment == [MaxLayer |-> 0, Layers |-> <<>>, PipePositions |-> {}]

\* result.Expression
expr == ExprText(ast)

Init ==
    /\ pc = "start"
    /\ ast \in {ParseExpr(l) : l \in TermLists(MaxTerms)}
    /\ userValues \in CapturedValues
    /\ env \in {EnvWith(e, p) : e \in Environments, p \in {"", "false"}}
    /\ NoColor = TRUE
    /\ colorConfig = NoFormatter
    /\ tree = NilTree
    /\ positions = <<>>
    /\ assignment = NoAssignment
    /\ result = <<>>
    /\ nodeCounter = 0
    /\ evals = <<>>
    /\ formatters = <<>>
    /\ runs = <<>>
    /\ output = <<>>

\* evaluator.EvaluateWithValues (evaluator.Evaluate when nothing was captured)
Evaluate ==
    /\ pc = "start"
    /\ tree' = EvaluateWithValues(ast, CallerPC, userValues).tree
    /\ pc' = "evaluated"
    /\ UNCHANGED <<ast, userValues, env, NoColor, colorConfig, positions, assignment,
                   result, nodeCounter, evals, formatters, runs, output>>

\* NewVisualFormatter, called by BuildDiagnosticOutputWithEvaluatorAndContext
NewVisualFormatter ==
    /\ pc = "evaluated"
    /\ colorConfig' = setupColorConfig(env)
    /\ NoColor' = ~shouldEnableColors(env)
    /\ pc' = "formatter"
    /\ UNCHANGED <<ast, userValues, env, tree, positions, assignment, result,
                   nodeCounter, evals, formatters, runs, output>>

\* formatPowerAssertStyle: createPositionMapper and extractAllPositionsWithAST
ExtractPositions ==
    /\ pc = "formatter"
    /\ tree # NilTree
    /\ positions' = extractAllPositionsWithAST(tree, ast, createPositionMapper(expr))
    /\ pc' = "extracted"
    /\ UNCHANGED <<ast, userValues, env, NoColor, colorConfig, tree, assignment, result,
                   nodeCounter, evals, formatters, runs, output>>

\* buildUnicodeAwareLines: correctVisualPositions
CorrectVisualPositions ==
    /\ pc = "extracted"
    /\ positions' = correctVisualPositions(positions, expr)
    /\ pc' = "corrected"
    /\ UNCHANGED <<ast, userValues, env, NoColor, colorConfig, tree, assignment, result,
                   nodeCounter, evals, formatters, runs, output>>

\* buildUnicodeAwareLines: buildPowerAssertTreeWithLayers
BuildPowerAssertTreeWithLayers ==
    /\ pc = "corrected"
    /\ assignment' = assignVisualLayers(positions)
    /\ result' = buildPowerAssertTreeWithLayers(colorConfig, expr, positions, env, NoColor)
    /\ pc' = "done"
    /\ UNCHANGED <<ast, userValues, env, NoColor, colorConfig, tree, positions,
                   nodeCounter, evals, formatters, runs, output>>

\* formatPowerAssertStyle: the assert line and the indented lines
FormatPowerAssertStyle ==
    /\ pc = "done"
    /\ output' = WriteLines(expr, result)
    /\ pc' = "formatted"
    /\ UNCHANGED <<ast, userValues, env, NoColor, colorConfig, tree, positions, assignment,
                   result, nodeCounter, evals, formatters, runs>>

Next ==
    \/ Evaluate
    \/ NewVisualFormatter
    \/ ExtractPositions
    \/ CorrectVisualPositions
    \/ BuildPowerAssertTreeWithLayers
    \/ FormatPowerAssertStyle

Spec == Init /\ [][Next]_vars

----------------------------------------------------------------------------
(* Properties of the rendering of one assertion (specification Spec)       *)

\* A line without its complete SGR escape sequences (ESC [ digits and ; m);
\* anything else stays, an ESC that starts no complete sequence included.
\* s[j..k] is one complete escape sequence.
IsSgr(s, j, k) ==
    /\ k >= j + 2
    /\ s[j] = "ESC"
    /\ s[j + 1] = "["
    /\ s[k] = "m"
    /\ \A t \in (j + 2)..(k - 1) :
          s[t] \in {"0", "1", "2", "3", "4", "5", "6", "7", "8", "9", ";"}

\* The runes of s that lie in a complete escape sequence: from an ESC to the
\* first m after its bracket.
SgrRunes(s) ==
    UNION {LET ms == {k \in (j + 2)..Len(s) : s[k] = "m"}
               k == CHOOSE m \in ms : \A o \in ms : m <= o
           IN IF ms # {} /\ IsSgr(s, j, k) THEN j..k ELSE {}
           : j \in {e \in 1..Len(s) : s[e] = "ESC"}}

StripAnsi(s) ==
    LET inSgr == SgrRunes(s) IN
    Concat([i \in 1..Len(s) |-> IF i \in inSgr THEN <<>> ELSE <<s[i]>>])

\* Every ESC of the line starts a complete escape sequence.
CompleteEscapes(s) == "ESC" \notin {StripAnsi(s)[i] : i \in 1..Len(StripAnsi(s))}

\* The lines of layer k (from 0) in the output: pipe line, value line, separator.
PipeLineOf(k) == StripAnsi(result[3 * k + 1])
ValueLineOf(k) == StripAnsi(result[3 * k + 2])

\* The text of value v stands in the line from visual column col on.
StartsAtColumn(line, v, col) ==
    \E j \in 0..Len(line) :
        /\ visualWidth(SubSeq(line, 1, j)) = col
        /\ j + Len(v) <= Len(line)
        /\ SubSeq(line, j + 1, j + Len(v)) = v

\* The runes of s that lie before byte offset off.
RECURSIVE RunesBefore(_, _)
RunesBefore(s, off) ==
    IF s = <<>> \/ off <= 0 THEN <<>>
    ELSE <<Head(s)>> \o RunesBefore(Tail(s), off - RuneLen(Head(s)))

\* The visual column at which byte offset off of the expression text starts.
ColumnOfOffset(off) == visualWidth(RunesBefore(expr, off))

\* All nodes of a syntax tree.
RECURSIVE AstNodes(_)
AstNodes(n) ==
    IF n.kind = "none" THEN {}
    ELSE IF n.kind = "BinaryExpr" THEN {n} \cup AstNodes(n.X) \cup AstNodes(n.Y)
    ELSE {n}

\* The text a syntax node is shown under, the byte offset where that text
\* starts in its own span, and the priority class of its position.
ShownText(n) == IF n.kind = "BinaryExpr" THEN n.op ELSE n.text
ShownOffset(n) == IF n.kind = "BinaryExpr" THEN n.X.end ELSE n.pos - 1
ShownPriority(n) == IF n.kind = "BinaryExpr" THEN 5 ELSE IF n.kind = "Ident" THEN 20 ELSE 15

\* C1: in every layer of the assignment, any two distinct nodes have
\* disjoint ranges [PipePosition, PipePosition + visual width of the value).
C1_NoOverlap ==
    \A k \in 1..Len(assignment.Layers) :
        \A i, j \in 1..Len(assignment.Layers[k]) :
            i # j =>
                LET a == assignment.Layers[k][i]
                    b == assignment.Layers[k][j]
                IN \/ a.PipePosition + visualWidth(a.Position.Value) <= b.PipePosition
                   \/ b.PipePosition + visualWidth(b.Position.Value) <= a.PipePosition

\* A layout in which a conflict opened a second layer and a layer is shared.
C1_Witness ==
    /\ pc = "done"
    /\ Len(assignment.Layers) >= 2
    /\ \E k \in 1..Len(assignment.Layers) : Len(assignment.Layers[k]) >= 2

C3_ValueAlignment ==
    (pc = "done" /\ ~colorConfig.ColorsEnabled) =>
        \A k \in 1..Len(assignment.Layers) :
            \A i \in 1..Len(assignment.Layers[k]) :
                StartsAtColumn(ValueLineOf(k - 1), assignment.Layers[k][i].Position.Value,
                               assignment.Layers[k][i].PipePosition)

\* The syntax nodes that have a value to show: identifiers that resolve,
\* literals, comparison and logical operators.
Renderable(n) ==
    \/ n.kind = "BasicLit"
    \/ n.kind = "BinaryExpr"
    \/ n.kind = "Ident" /\ n.text \in extractVariableNames(ast) \cup DOMAIN userValues

IsAscii(s) == \A i \in 1..Len(s) : Codepoint(s[i]) < 128

\* C4: every identifier, literal and operator occurrence has a position at
\* the column where its own span starts (stated here for expressions of ASCII
\* runes, where a byte offset and a column are the same number).
C4_OwnOccurrenceColumn ==
    (pc \in {"corrected", "done"} /\ IsAscii(expr)) =>
        \A n \in {m \in AstNodes(ast) : Renderable(m)} :
            \E i \in 1..Len(positions) :
                /\ positions[i].Expression = ShownText(n)
                /\ positions[i].VisualPos = ColumnOfOffset(ShownOffset(n))

\* The byte offsets at which text t occurs in the expression.
OccurrencesOf(t) ==
    {o \in 0..ByteLen(expr) :
        o + ByteLen(t) <= ByteLen(expr)
        /\ SubSeq(Bytes(expr), o + 1, o + ByteLen(t)) = Bytes(t)}

\* C5: every pipe column is the visual column (2 per wide rune, 1 per
\* other rune) of a place where the position's text occurs in the expression.
C5_VisualColumns ==
    pc \in {"corrected", "done"} =>
        \A i \in 1..Len(positions) :
            \E o \in OccurrencesOf(positions[i].Expression) :
                positions[i].VisualPos = ColumnOfOffset(o)

\* C6: nodes with the same text at different places of the expression each
\* have their own position: per text and class there are as many positions as
\* occurrences.
C6_OnePositionPerOccurrence ==
    pc \in {"extracted", "corrected", "done"} =>
        \A n \in {m \in AstNodes(ast) : Renderable(m)} :
            Cardinality({i \in 1..Len(positions) :
                            /\ positions[i].Expression = ShownText(n)
                            /\ positions[i].Priority = ShownPriority(n)})
            = Cardinality({m \in AstNodes(ast) :
                            /\ Renderable(m)
                            /\ ShownText(m) = ShownText(n)
                            /\ ShownPriority(m) = ShownPriority(n)})

\* The same formatter with colours switched off.
Uncoloured(f) == [f EXCEPT !.ColorsEnabled = FALSE]

\* C9: the coloured output, with its escape sequences removed, is the
\* output rendered without colours, and every escape sequence in it is complete.
C9_ColourIsDecoration ==
    pc = "done" =>
        LET plain == buildPowerAssertTreeWithLayers(Uncoloured(colorConfig), expr, positions,
                                                    env, NoColor)
        IN /\ Len(result) = Len(plain)
           /\ \A i \in 1..Len(result) :
                 /\ CompleteEscapes(result[i])
                 /\ StripAnsi(result[i]) = plain[i]

----------------------------------------------------------------------------
(* Evaluations running at the same time (specification SpecConcurrent).    *)
(* Every evaluation resets and counts up the one package-level             *)
(* nodeCounter; nodeCounter++ is a read followed by a write, and the       *)
(* return statement reads the variable again.                              *)

\* The number of goroutines that evaluate at the same time.
MaxEvals == 2

Evaluations == 1..MaxEvals

\* The expressions evaluated concurrently.
ConcurrentExprs ==
    {ParseExpr(<<[L |-> Id(<<"a">>), op |-> <<">">>, R |-> r]>>) :
        r \in {Lit(<<"4">>), Id(<<"b">>)}}

\* The IDs of a tree in the order buildTreeFromAST hands them out.
RECURSIVE TreeIDs(_)
TreeIDs(t) ==
    IF t = NilTree THEN <<>>
    ELSE TreeIDs(t.Left) \o TreeIDs(t.Right) \o <<t.ID>>

\* The number of getNextNodeID calls an evaluation of n makes.
NodeCount(n) == Len(TreeIDs(buildEvaluationTree(n, extractVariableValuesFromFrame(n, CallerPC)).tree))

NoEnv == EnvWith([n \in {"FORCE_COLOR", "NO_COLOR"} |-> ""], "")

InitConcurrent ==
    /\ pc = "concurrent"
    /\ evals \in [Evaluations ->
                    {[at |-> "reset", ast |-> n, loaded |-> 0, ids |-> <<>>] :
                        n \in ConcurrentExprs}]
    /\ nodeCounter = 0
    /\ ast = NoNode
    /\ userValues = <<>>
    /\ env = NoEnv
    /\ NoColor = TRUE
    /\ colorConfig = NoFormatter
    /\ tree = NilTree
    /\ positions = <<>>
    /\ assignment = NoAssignment
    /\ result = <<>>
    /\ formatters = <<>>
    /\ runs = <<>>
    /\ output = <<>>

ConcurrentUnchanged ==
    UNCHANGED <<pc, ast, userValues, env, NoColor, colorConfig, tree, positions,
                assignment, result, formatters, runs, output>>

\* buildEvaluationTree: nodeCounter = 0
ResetCounter(p) ==
    /\ evals[p].at = "reset"
    /\ nodeCounter' = 0
    /\ evals' = [evals EXCEPT ![p].at = "load"]
    /\ ConcurrentUnchanged

\* getNextNodeID: the read of nodeCounter++
LoadCounter(p) ==
    /\ evals[p].at = "load"
    /\ evals' = [evals EXCEPT ![p].at = "store", ![p].loaded = nodeCounter]
    /\ UNCHANGED nodeCounter
    /\ ConcurrentUnchanged

\* getNextNodeID: the write of nodeCounter++
StoreCounter(p) ==
    /\ evals[p].at = "store"
    /\ nodeCounter' = evals[p].loaded + 1
    /\ evals' = [evals EXCEPT ![p].at = "return"]
    /\ ConcurrentUnchanged

\* getNextNodeID: return nodeCounter; the ID goes into the node being built
ReturnID(p) ==
    /\ evals[p].at = "return"
    /\ evals' = [evals EXCEPT
                    ![p].ids = Append(@, nodeCounter),
                    ![p].at = IF Len(evals[p].ids) + 1 = NodeCount(evals[p].ast)
                              THEN "done" ELSE "load"]
    /\ UNCHANGED nodeCounter
    /\ ConcurrentUnchanged

NextConcurrent ==
    \E p \in Evaluations :
        \/ ResetCounter(p)
        \/ LoadCounter(p)
        \/ StoreCounter(p)
        \/ ReturnID(p)

SpecConcurrent == InitConcurrent /\ [][NextConcurrent]_vars

\* C7: an evaluation that ran next to others returns the tree it returns
\* when it runs alone, node IDs included.
C7_SameTreeAsAlone ==
    \A p \in DOMAIN evals :
        evals[p].at = "done" =>
            evals[p].ids = TreeIDs(buildEvaluationTree(
                               evals[p].ast, extractVariableValuesFromFrame(evals[p].ast, CallerPC)).tree)

----------------------------------------------------------------------------
(* Formatters and the process environment (specification SpecEnv).         *)
(* The environment changes between constructions and renderings; every     *)
(* construction writes the colour library's global NoColor flag.           *)

\* The number of formatters constructed in the process.
MaxFormatters == 2

Unbuilt == [built |-> FALSE, config |-> NoFormatter, first |-> <<>>, last |-> <<>>]

\* What a formatter writes for a header and a false result: colorizeHeader
\* and colorizeValue as FormatVisualWithContext and buildColoredValueLine
\* call them.
Emit(f, e, globalNoColor) ==
    <<colorizeHeader(f, <<"A", "S", "S", "E", "R", "T", "I", "O", "N">>, e, globalNoColor),
      colorizeValue(f, FormatBool(FALSE), FALSE, e, globalNoColor)>>

InitEnv ==
    /\ pc = "environment"
    /\ env \in {EnvWith(e, "") : e \in Environments}
    /\ NoColor \in BOOLEAN
    /\ formatters = [i \in 1..MaxFormatters |-> Unbuilt]
    /\ colorConfig = NoFormatter
    /\ ast = NoNode
    /\ userValues = <<>>
    /\ tree = NilTree
    /\ positions = <<>>
    /\ assignment = NoAssignment
    /\ result = <<>>
    /\ nodeCounter = 0
    /\ evals = <<>>
    /\ runs = <<>>
    /\ output = <<>>

EnvUnchanged ==
    UNCHANGED <<pc, ast, userValues, colorConfig, tree, positions, assignment, result,
                nodeCounter, evals, runs, output>>

\* os.Setenv / os.Unsetenv of FORCE_COLOR or NO_COLOR by the program around
\* the formatter
Setenv(name, value) ==
    /\ env[name] # value
    /\ env' = [env EXCEPT ![name] = value]
    /\ UNCHANGED <<NoColor, formatters>>
    /\ EnvUnchanged

\* NewVisualFormatter: setupColorConfig builds the configuration and sets
\* color.NoColor
ConstructFormatter(i) ==
    /\ ~formatters[i].built
    /\ formatters' = [formatters EXCEPT ![i].built = TRUE,
                                        ![i].config = setupColorConfig(env)]
    /\ NoColor' = ~shouldEnableColors(env)
    /\ UNCHANGED env
    /\ EnvUnchanged

\* FormatVisualWithContext on formatter i; its first and its latest output
\* are kept.
FormatVisual(i) ==
    /\ formatters[i].built
    /\ LET out == Emit(formatters[i].config, env, NoColor) IN
       formatters' = [formatters EXCEPT
                         ![i].first = IF formatters[i].first = <<>> THEN out ELSE @,
                         ![i].last = out]
    /\ UNCHANGED <<env, NoColor>>
    /\ EnvUnchanged

\* The snippets a pipe colour is asked for: short ones, and one whose
\* running hash wraps around.
Snippets ==
    {<<"a">>, <<"b">>, <<"i">>,
     <<"c", "s", "f", "c", "f", "f", "n", "b", "o", "l", "u", "l", "e", "o", "x">>}

\* assignPipeColor on formatter i: the call, its hash and the palette index
\* it returns are kept.
AssignPipeColor(i, s) ==
    /\ formatters[i].built
    /\ runs' = [f |-> i, expression |-> s, hash |-> simpleHash(s),
                colorIndex |-> assignPipeColorIndex(formatters[i].config, s)]
    /\ UNCHANGED <<pc, ast, userValues, env, NoColor, colorConfig, tree, positions, assignment,
                   result, nodeCounter, evals, formatters, output>>

NextEnv ==
    \/ \E name \in {"FORCE_COLOR", "NO_COLOR"}, value \in {"", "1"} : Setenv(name, value)
    \/ \E i \in 1..MaxFormatters : ConstructFormatter(i)
    \/ \E i \in 1..MaxFormatters : FormatVisual(i)
    \/ \E i \in 1..MaxFormatters, s \in Snippets : AssignPipeColor(i, s)

SpecEnv == InitEnv /\ [][NextEnv]_vars

\* C8: whatever happens to the environment and whichever formatters are
\* constructed after it, a formatter keeps writing what it wrote first.
C8_ConfigurationReadOnce ==
    \A i \in DOMAIN formatters :
        (formatters[i].built /\ formatters[i].first # <<>>) =>
            formatters[i].last = formatters[i].first

----------------------------------------------------------------------------
(* One assertion rendered twice (specification SpecContext).  The          *)
(* arguments after the condition go through NewAssertionContext, which     *)
(* ranges over a Values map in the order the runtime picks.                *)

\* The largest number of arguments after the condition.
MaxArgs == 2

ArgValue(name, v) == [kind |-> "Value", Name |-> name, Value |-> v, m |-> <<>>]
ArgValues(m) == [kind |-> "Values", Name |-> <<>>, Value |-> Nil, m |-> m]
ArgMessage(text) == [kind |-> "string", Name |-> text, Value |-> Nil, m |-> <<>>]

Args ==
    {ArgValue(<<"a">>, IntVal(3)), ArgValue(<<"b">>, IntVal(4)),
     ArgValues([n \in {<<"a">>, <<"b">>} |-> IF n = <<"a">> THEN IntVal(3) ELSE IntVal(4)]),
     ArgValues([n \in {<<"a">>} |-> IntVal(3)]),
     ArgMessage(<<"m">>)}

ArgLists == UNION {[1..n -> Args] : n \in 0..MaxArgs}

\* The orders in which a range over map m can yield its keys.
RangeOrders(m) ==
    {o \in [1..Cardinality(DOMAIN m) -> DOMAIN m] :
        \A i, j \in DOMAIN o : i # j => o[i] # o[j]}

\* (*AssertionContext).GetValuesMap: a later value of a name replaces an
\* earlier one.
GetValuesMap(values) ==
    [name \in {values[i].Name : i \in 1..Len(values)} |->
        LET at == {i \in 1..Len(values) : values[i].Name = name}
        IN values[CHOOSE i \in at : \A j \in at : j <= i].Value]

\* fmt's %v and %T of a value
FormatV(v) ==
    LET RECURSIVE join(_)
        join(ns) == IF ns = <<>> THEN <<>>
                    ELSE IF Len(ns) = 1 THEN IntToDigits(ns[1])
                    ELSE IntToDigits(ns[1]) \o <<" ">> \o join(Tail(ns))
    IN
    CASE v.t \in NumericTypes.signed \cup NumericTypes.unsigned -> IntToDigits(v.v)
      [] v.t \in NumericTypes.float ->
           IF v.v % 2 = 0 THEN IntToDigits(v.v \div 2)
           ELSE (IF v.v < 0 THEN <<"-">> ELSE <<>>)
                \o IntToDigits((IF v.v < 0 THEN 0 - v.v ELSE v.v) \div 2) \o <<".", "5">>
      [] v.t = "string" -> v.v
      [] v.t = "bool" -> FormatBool(v.v)
      [] v.t = "[]int" -> <<"[">> \o join(v.v.elems) \o <<"]">>
      [] v.t = "[3]int" -> <<"[">> \o join(v.v) \o <<"]">>
      [] v.t = "Counter" -> <<"{">> \o IntToDigits(v.v) \o <<"}">>
      [] OTHER -> <<"<", "n", "i", "l", ">">>

FormatT(v) ==
    CASE v.t = "int" -> <<"i", "n", "t">>
      [] v.t = "string" -> <<"s", "t", "r", "i", "n", "g">>
      [] v.t = "bool" -> <<"b", "o", "o", "l">>
      [] OTHER -> <<"n", "i", "l">>

\* formatPowerAssertStyle for expression n and the captured values
formatPowerAssertStyle(f, n, values, e, globalNoColor) ==
    LET t == EvaluateWithValues(n, CallerPC, values).tree
        text == ExprText(n)
    IN CHOOSE lines \in
           {WriteLines(text, buildPowerAssertTreeWithLayers(f, text, ps, e, globalNoColor)) :
               ps \in {correctVisualPositions(
                           extractAllPositionsWithAST(t, n, createPositionMapper(text)), text)}}
           : TRUE

\* getCombinedMessage: the messages joined by one space
RECURSIVE getCombinedMessage(_)
getCombinedMessage(messages) ==
    IF messages = <<>> THEN <<>>
    ELSE IF Len(messages) = 1 THEN messages[1]
    ELSE messages[1] \o <<" ">> \o getCombinedMessage(Tail(messages))

\* FormatVisualWithContext: the picture, the custom message, then the
\* captured values in the order of ctx.Values.
FormatVisualWithContext(f, n, values, customMessage, e, globalNoColor) ==
    formatPowerAssertStyle(f, n, GetValuesMap(values), e, globalNoColor)
    \o (IF customMessage # <<>>
        THEN << <<"C", "U", "S", "T", "O", "M">>, customMessage >>
        ELSE <<>>)
    \o (IF Len(values) > 0
        THEN << <<"C", "A", "P", "T", "U", "R", "E", "D">> >>
             \o [i \in 1..Len(values) |->
                    <<" ", " ">> \o values[i].Name \o <<" ", "=", " ">>
                    \o FormatV(values[i].Value) \o <<" ", "(">>
                    \o FormatT(values[i].Value) \o <<")">>]
        ELSE <<>>)

NoColorEnv == EnvWith([n \in {"FORCE_COLOR", "NO_COLOR"} |-> IF n = "NO_COLOR" THEN "1" ELSE ""], "")

InitContext ==
    /\ pc = "context"
    /\ ast \in ConcurrentExprs
    /\ env = NoColorEnv
    /\ NoColor = TRUE
    /\ colorConfig = setupColorConfig(NoColorEnv)
    /\ runs \in {[r \in 1..2 |-> [args |-> l, next |-> 1, Values |-> <<>>, Messages |-> <<>>,
                                   output |-> <<>>, done |-> FALSE]] : l \in ArgLists}
    /\ userValues = <<>>
    /\ tree = NilTree
    /\ positions = <<>>
    /\ assignment = NoAssignment
    /\ result = <<>>
    /\ nodeCounter = 0
    /\ evals = <<>>
    /\ formatters = <<>>
    /\ output = <<>>

ContextUnchanged ==
    UNCHANGED <<pc, ast, userValues, env, NoColor, colorConfig, tree, positions,
                assignment, result, nodeCounter, evals, formatters, output>>

\* NewAssertionContext: one turn of the loop over args
AppendArg(r) ==
    /\ ~runs[r].done
    /\ runs[r].next <= Len(runs[r].args)
    /\ LET arg == runs[r].args[runs[r].next] IN
       \/ /\ arg.kind = "Value"
          /\ runs' = [runs EXCEPT ![r].next = @ + 1,
                                  ![r].Values = Append(@, [Name |-> arg.Name, Value |-> arg.Value])]
       \/ /\ arg.kind = "Values"
          /\ \E order \in RangeOrders(arg.m) :
                runs' = [runs EXCEPT
                            ![r].next = @ + 1,
                            ![r].Values = @ \o [i \in 1..Len(order) |->
                                                  [Name |-> order[i], Value |-> arg.m[order[i]]]]]
       \/ /\ arg.kind = "string"
          /\ runs' = [runs EXCEPT ![r].next = @ + 1, ![r].Messages = Append(@, arg.Name)]
    /\ ContextUnchanged

\* Evaluate and FormatVisualWithContext once the context is complete
RenderWithContext(r) ==
    /\ ~runs[r].done
    /\ runs[r].next > Len(runs[r].args)
    /\ runs' = [runs EXCEPT
                   ![r].done = TRUE,
                   ![r].output = FormatVisualWithContext(
                                    colorConfig, ast, runs[r].Values,
                                    getCombinedMessage(runs[r].Messages), env, NoColor)]
    /\ ContextUnchanged

NextContext ==
    \E r \in 1..2 :
        \/ AppendArg(r)
        \/ RenderWithContext(r)

SpecContext == InitContext /\ [][NextContext]_vars

\* C10: with colours disabled, two renderings of the same assertion with
\* the same arguments are identical.
C10_Deterministic ==
    (pc = "context" /\ runs[1].done /\ runs[2].done) => runs[1].output = runs[2].output

----------------------------------------------------------------------------
(* Assertions with nothing to draw (specification SpecFallback): a text    *)
(* that does not parse, an expression whose only identifier has no value,  *)
(* and a result handed to the formatter without a tree.                    *)

\* The texts parser.ParseExpr rejects are "a >", the same with wide runes,
\* and "> 4"; the expressions that parse are the identifiers false and b
\* alone, a > 4, a == nil, and b == 4 && nil.
InitFallback ==
    /\ pc = "start"
    /\ ast \in {BadExpr(t) : t \in {<<"a", " ", ">">>, <<"U5E74", "U9F62", " ", ">">>,
                                    <<">", " ", "4">>}}
               \cup {ParseExpr(<<[L |-> Id(l), op |-> <<>>, R |-> Id(l)]>>) :
                        l \in {<<"f", "a", "l", "s", "e">>, <<"b">>}}
               \cup {ParseExpr(<<[L |-> Id(<<"a">>), op |-> <<">">>, R |-> Lit(<<"4">>)]>>),
                     ParseExpr(<<[L |-> Id(<<"a">>), op |-> <<"=", "=">>, R |-> Id(<<"n", "i", "l">>)]>>),
                     ParseExpr(<<[L |-> Id(<<"b">>), op |-> <<"=", "=">>, R |-> Lit(<<"4">>)],
                                 [L |-> Id(<<"n", "i", "l">>), op |-> <<>>, R |-> Id(<<"b">>)]>>)}
    /\ userValues \in CapturedValues
    /\ env \in {EnvWith(e, "") : e \in Environments}
    /\ NoColor = TRUE
    /\ colorConfig = NoFormatter
    /\ tree = NilTree
    /\ positions = <<>>
    /\ assignment = NoAssignment
    /\ result = <<>>
    /\ nodeCounter = 0
    /\ evals = <<>>
    /\ formatters = <<>>
    /\ runs = <<>>
    /\ output = <<>>

\* An ExpressionResult built by the caller with Expression and Result only
ResultWithoutTree ==
    /\ pc = "start"
    /\ pc' = "evaluated"
    /\ UNCHANGED <<ast, userValues, env, NoColor, colorConfig, tree, positions, assignment,
                   result, nodeCounter, evals, formatters, runs, output>>

\* formatPowerAssertStyle: result.Tree == nil
FormatSimpleAssertStyle ==
    /\ pc = "formatter"
    /\ tree = NilTree
    /\ output' = formatSimpleAssertStyle(colorConfig, expr, env, NoColor)
    /\ pc' = "formatted"
    /\ UNCHANGED <<ast, userValues, env, NoColor, colorConfig, tree, positions, assignment,
                   result, nodeCounter, evals, formatters, runs>>

NextFallback ==
    \/ Evaluate
    \/ ResultWithoutTree
    \/ NewVisualFormatter
    \/ ExtractPositions
    \/ CorrectVisualPositions
    \/ BuildPowerAssertTreeWithLayers
    \/ FormatPowerAssertStyle
    \/ FormatSimpleAssertStyle

SpecFallback == InitFallback /\ [][NextFallback]_vars

\* text occurs in line, escape sequences aside
Contains(line, text) == IndexFrom(StripAnsi(line), text, 0) # -1

\* C11: for a text that does not parse, the tree is a single root node with
\* Result false and the raw text as its Text, every step of the rendering is
\* taken, and the output contains the text and the word false.
C11_UnparsableRendered ==
    (ast.kind = "BadExpr" /\ tree # NilTree) =>
        /\ tree.Type = "error"
        /\ tree.Left = NilTree /\ tree.Right = NilTree
        /\ tree.Result = FALSE
        /\ tree.Text = ast.text
        /\ pc # "formatted" => ENABLED NextFallback
        /\ pc = "formatted" =>
              /\ \E i \in 1..Len(output) : Contains(output[i], ast.text)
              /\ \E i \in 1..Len(output) : Contains(output[i], <<"f", "a", "l", "s", "e">>)

C11_Witness ==
    /\ pc = "formatted"
    /\ ast.kind = "BadExpr"
    /\ tree # NilTree
    /\ ast.text = <<"U5E74", "U9F62", " ", ">">>
    /\ colorConfig.ColorsEnabled

\* C12: when the tree yields no position, the output is the expression
\* line, a line with a single pipe and a line with the word false, the pipe
\* and the word at the visual end of the expression text.
C12_PipeAndWordAtVisualEnd ==
    (pc = "formatted" /\ tree # NilTree /\ positions = <<>>) =>
        LET column == Len(AssertLine(<<>>)) - 1 + visualWidth(expr) IN
        /\ Len(output) = 3
        /\ StripAnsi(output[1]) = AssertLine(expr)
        /\ StripAnsi(output[2]) = Spaces(column) \o <<"|">>
        /\ StripAnsi(output[3]) = Spaces(column) \o <<"f", "a", "l", "s", "e">>

\* A tree without the IDs of its nodes.
RECURSIVE WithoutIDs(_)
WithoutIDs(t) ==
    IF t = NilTree THEN NilTree
    ELSE [t EXCEPT !.ID = 0, !.Left = WithoutIDs(t.Left), !.Right = WithoutIDs(t.Right)]

\* All nodes of an evaluation tree.
RECURSIVE TreeNodes(_)
TreeNodes(t) == IF t = NilTree THEN {} ELSE {t} \cup TreeNodes(t.Left) \cup TreeNodes(t.Right)

\* An identifier node without a value to resolve to: the frame offers none
\* for true, false and nil, and none was captured.
Unresolved(t) ==
    /\ t # NilTree
    /\ t.Type = "identifier"
    /\ t.Text \in {<<"t", "r", "u", "e">>, <<"f", "a", "l", "s", "e">>, <<"n", "i", "l">>}
    /\ t.Text \notin DOMAIN userValues

\* Next to an unresolved identifier, the other operand is the tree it is
\* when built on its own.
RECURSIVE SiblingsIntact(_, _)
SiblingsIntact(t, n) ==
    LET variables == mergeVariables(extractVariableValuesFromFrame(ast, CallerPC), userValues)
        alone(m) == WithoutIDs(buildTreeFromAST(m, variables, 0).tree)
    IN n.kind = "BinaryExpr" =>
          /\ Unresolved(t.Left) => WithoutIDs(t.Right) = alone(n.Y)
          /\ Unresolved(t.Right) => WithoutIDs(t.Left) = alone(n.X)
          /\ SiblingsIntact(t.Left, n.X)
          /\ SiblingsIntact(t.Right, n.Y)

----------------------------------------------------------------------------
(* The evaluator on values of every kind (specification SpecEval): one     *)
(* call of EvaluateWithValues, or one access through reflection            *)
(* (callMethod, getIndexValue, getSliceValue).                             *)

\* A panic that unwinds the evaluator: no function of it recovers.
Panic == [t |-> "panic", v |-> 0]

\* The method set of the struct type Counter, as reflection shows it: the
\* number of parameters, whether the last is variadic, whether the body
\* panics, and the results.
\*   func (c Counter) Get() int            { return c.N }
\*   func (c Counter) Add(d int) int       { return c.N + d }
\*   func (c Counter) Sum(ds ...int) int   { return c.N + sum of ds }
\*   func (c Counter) Inverse() int        { return 100 / c.N }
\*   func (c Counter) Reset()              { }
CounterMethods(n) ==
    [m \in {<<"G", "e", "t">>, <<"A", "d", "d">>, <<"S", "u", "m">>,
            <<"I", "n", "v", "e", "r", "s", "e">>, <<"R", "e", "s", "e", "t">>} |->
        CASE m = <<"G", "e", "t">> ->
               [NumIn |-> 0, IsVariadic |-> FALSE, panics |-> FALSE, results |-> <<IntVal(n)>>]
          [] m = <<"A", "d", "d">> ->
               [NumIn |-> 1, IsVariadic |-> FALSE, panics |-> FALSE, results |-> <<IntVal(n)>>]
          [] m = <<"S", "u", "m">> ->
               [NumIn |-> 1, IsVariadic |-> TRUE, panics |-> FALSE, results |-> <<IntVal(n)>>]
          [] m = <<"I", "n", "v", "e", "r", "s", "e">> ->
               [NumIn |-> 0, IsVariadic |-> FALSE, panics |-> n = 0,
                results |-> <<IntVal(IF n = 0 THEN 0 ELSE 100 \div n)>>]
          [] OTHER ->
               [NumIn |-> 0, IsVariadic |-> FALSE, panics |-> FALSE, results |-> <<>>]]

\* callMethod: method.Call(nil) panics when the method wants arguments that
\* are not variadic, and when the method's body panics.
callMethod(obj, methodName) ==
    IF obj = Nil THEN Nil
    ELSE LET methods == IF obj.t = "Counter" THEN CounterMethods(obj.v) ELSE <<>> IN
         IF methodName \notin DOMAIN methods THEN Nil
         ELSE LET method == methods[methodName] IN
              IF (IF method.IsVariadic THEN method.NumIn - 1 ELSE method.NumIn) > 0 THEN Panic
              ELSE IF method.panics THEN Panic
              ELSE IF Len(method.results) > 0 THEN method.results[1]
              ELSE Nil

\* buildCallTree for base.method(): the node, or the panic of callMethod
buildCallTree(baseTree, methodName, counter) ==
    LET methodResult == IF baseTree.Value # Nil THEN callMethod(baseTree.Value, methodName)
                        ELSE Nil
    IN IF methodResult = Panic THEN Panic
       ELSE [ID |-> getNextNodeID(counter), Type |-> "method_call", Operator |-> <<>>,
             Left |-> baseTree, Right |-> NilTree, Value |-> methodResult,
             Result |-> methodResult # Nil /\ isTruthy(methodResult),
             Text |-> baseTree.Text \o <<".">> \o methodName \o <<"(", ")">>]

\* getIndexValue (evaluator.go): slices and arrays, an index of type int
getIndexValue(obj, index) ==
    IF obj = Nil \/ index = Nil THEN Nil
    ELSE IF obj.t \notin {"[]int", "[3]int"} THEN Nil
    ELSE IF index.t # "int" THEN Nil
    ELSE LET elems == IF obj.t = "[]int" THEN obj.v.elems ELSE obj.v IN
         IF index.v < 0 \/ index.v >= Len(elems) THEN Nil
         ELSE IntVal(elems[index.v + 1])

\* getSliceValue: reflect.Value.Slice and Slice3 panic on an array that is
\* not addressable, which the array in an interface value never is.
getSliceValue(obj, low, high, max) ==
    IF obj = Nil THEN Nil
    ELSE IF obj.t \notin {"[]int", "[3]int", "string"} THEN Nil
    ELSE
    LET elems == IF obj.t = "[]int" THEN obj.v.elems ELSE obj.v
        length == Len(elems)
        convertToInt(value) ==
            IF value.t \in {"int", "int32", "int64", "uint", "uint32", "uint64"}
            THEN [idx |-> value.v, ok |-> TRUE] ELSE [idx |-> 0, ok |-> FALSE]
        lowIdx == IF low # Nil THEN convertToInt(low).idx ELSE 0
        highIdx == IF high # Nil THEN convertToInt(high).idx ELSE length
        maxIdx == IF max # Nil THEN convertToInt(max).idx ELSE length
    IN IF \E bound \in {low, high, max} : bound # Nil /\ ~convertToInt(bound).ok THEN Nil
       ELSE IF lowIdx < 0 \/ lowIdx > length \/ highIdx < lowIdx \/ highIdx > length THEN Nil
       ELSE IF max # Nil /\ (maxIdx < highIdx \/ maxIdx > length) THEN Nil
       ELSE IF obj.t = "string" THEN StrVal(SubSeq(elems, lowIdx + 1, highIdx))
       ELSE IF obj.t = "[3]int" THEN Panic
       ELSE [t |-> "[]int", v |-> [isNil |-> obj.v.isNil,
                                   elems |-> SubSeq(elems, lowIdx + 1, highIdx)]]

\* buildSliceTree for a[l:h:m], a holding obj and each bound that is written
\* holding its value (a bound of value Nil is one that is not written): the
\* node with its operands as Children, or the panic of getSliceValue.
buildSliceTree(obj, low, high, max) ==
    LET variables == [n \in {<<"a">>, <<"l">>, <<"h">>, <<"m">>} |->
                         CASE n = <<"a">> -> obj [] n = <<"l">> -> low
                           [] n = <<"h">> -> high [] OTHER -> max]
        operand(name, counter) ==
            IF variables[name] = Nil THEN [tree |-> NilTree, counter |-> counter]
            ELSE buildTreeFromAST(Leaf([kind |-> "Ident", text |-> name], 0), variables, counter)
        baseTree == buildTreeFromAST(Leaf([kind |-> "Ident", text |-> <<"a">>], 0), variables, 0)
        lowTree == operand(<<"l">>, baseTree.counter)
        highTree == operand(<<"h">>, lowTree.counter)
        maxTree == operand(<<"m">>, highTree.counter)
        text(t) == IF t.tree = NilTree THEN <<>> ELSE t.tree.Text
        sliceValue == IF baseTree.tree.Value # Nil THEN getSliceValue(obj, low, high, max)
                      ELSE Nil
    IN IF sliceValue = Panic THEN Panic
       ELSE [ID |-> getNextNodeID(maxTree.counter), Type |-> "slice", Operator |-> <<>>,
             Left |-> NilTree, Right |-> NilTree,
             Children |-> SelectSeq(<<baseTree.tree, lowTree.tree, highTree.tree, maxTree.tree>>,
                                    LAMBDA c : c # NilTree),
             Value |-> sliceValue, Result |-> sliceValue # Nil,
             Text |-> baseTree.tree.Text \o <<"[">> \o text(lowTree) \o <<":">> \o text(highTree)
                      \o (IF maxTree.tree = NilTree THEN <<>> ELSE <<":">> \o text(maxTree))
                      \o <<"]">>]

\* formatEvaluationStep, with formatNodeValue and formatNodeResult
formatEvaluationStep(node) ==
    LET quoted == <<"U0060">> \o node.Text \o <<"U0060">>   \* U+0060 is the backquote
        arrow == <<" ", "=", ">", " ">>
        with == <<" ", "w", "i", "t", "h", " ">>
        formatNodeValue(n) == IF n.Value # Nil THEN FormatV(n.Value)
                              ELSE <<"<">> \o n.Text \o <<">">>
        formatNodeResult(n) == FormatBool(n.Result)
    IN CASE node.Type = "identifier" ->
              IF node.Value # Nil THEN quoted \o arrow \o FormatV(node.Value)
              ELSE quoted \o arrow \o <<"<">> \o node.Text \o <<">">>
         [] node.Type \in {"literal", "call", "index", "selector"} ->
              quoted \o arrow \o FormatV(node.Value)
         [] node.Type = "comparison" ->
              IF node.Left # NilTree /\ node.Right # NilTree
              THEN quoted \o with \o formatNodeValue(node.Left) \o <<" ">> \o node.Operator
                   \o <<" ">> \o formatNodeValue(node.Right) \o arrow \o FormatBool(node.Result)
              ELSE quoted \o arrow \o FormatBool(node.Result)
         [] node.Type = "logical" ->
              IF node.Left # NilTree /\ node.Right # NilTree
              THEN quoted \o with \o formatNodeResult(node.Left) \o <<" ">> \o node.Operator
                   \o <<" ">> \o formatNodeResult(node.Right) \o arrow \o FormatBool(node.Result)
              ELSE quoted \o arrow \o FormatBool(node.Result)
         [] node.Type = "unary" ->
              IF node.Right # NilTree
              THEN quoted \o with \o node.Operator \o formatNodeValue(node.Right)
                   \o arrow \o FormatBool(node.Result)
              ELSE quoted \o arrow \o FormatBool(node.Result)
         [] OTHER ->
              IF node.Value # Nil THEN quoted \o arrow \o FormatV(node.Value)
              ELSE quoted \o arrow \o FormatBool(node.Result)

\* extractEvaluationSteps: traverse goes into Left, then Right, then appends
\* the step of the node.
RECURSIVE extractEvaluationSteps(_)
extractEvaluationSteps(t) ==
    IF t = NilTree THEN <<>>
    ELSE extractEvaluationSteps(t.Left) \o extractEvaluationSteps(t.Right)
         \o <<formatEvaluationStep(t)>>

\* An evaluation: a op b for every operator, a > 20, (a) > 20, or a > 20 && b; a, b
\* and c are captured or not, and the caller's frame is known or not
\* (callerFrame 0).  An access through reflection: a method call by name, an
\* index, or a slice with two or three bounds.
InitEval ==
    /\ pc = "eval"
    /\ LET job == [op |-> "evaluate", callerFrame |-> 0, autoExtracted |-> <<>>,
                   Variables |-> <<>>, obj |-> Nil, name |-> <<>>, index |-> Nil,
                   low |-> Nil, high |-> Nil, max |-> Nil, out |-> Nil]
           Values ==
               {Nil, BoolVal(TRUE), BoolVal(FALSE), IntVal(0), IntVal(10), IntVal(25),
                [t |-> "int8", v |-> -1], [t |-> "uint", v |-> 20], [t |-> "uint64", v |-> 25],
                [t |-> "float32", v |-> 5], [t |-> "float64", v |-> 40], [t |-> "float64", v |-> 0],
                StrVal(<<>>), StrVal(<<"a">>),
                [t |-> "[]int", v |-> [isNil |-> TRUE, elems |-> <<>>]],
                [t |-> "[]int", v |-> [isNil |-> FALSE, elems |-> <<1, 2, 3>>]],
                [t |-> "[3]int", v |-> <<0, 0, 0>>], [t |-> "[3]int", v |-> <<1, 2, 3>>],
                [t |-> "Counter", v |-> 0], [t |-> "Counter", v |-> 7]}
           bases == {Nil, IntVal(10), StrVal(<<"a", "b", "c">>),
                     [t |-> "[]int", v |-> [isNil |-> TRUE, elems |-> <<>>]],
                     [t |-> "[]int", v |-> [isNil |-> FALSE, elems |-> <<1, 2, 3>>]],
                     [t |-> "[3]int", v |-> <<1, 2, 3>>]}
       IN
       \/ /\ ast = NoNode
          /\ userValues = <<>>
          /\ evals \in
                {[job EXCEPT !.op = "call", !.obj = o, !.name = m] :
                    o \in {Nil, IntVal(10), [t |-> "Counter", v |-> 0], [t |-> "Counter", v |-> 7]},
                    m \in DOMAIN CounterMethods(0) \cup {<<"M", "i", "s", "s", "i", "n", "g">>}}
                \cup {[job EXCEPT !.op = "index", !.obj = o, !.index = i] :
                        o \in bases,
                        i \in {Nil, IntVal(-1), IntVal(0), IntVal(2), IntVal(3),
                               [t |-> "int64", v |-> 1], StrVal(<<"a">>)}}
                \cup {[job EXCEPT !.op = "slice", !.obj = o, !.low = l, !.high = h, !.max = x] :
                        o \in bases,
                        l \in {Nil, IntVal(-1), IntVal(0), IntVal(1), IntVal(4), StrVal(<<"a">>)},
                        h \in {Nil, IntVal(0), IntVal(2), IntVal(4), [t |-> "uint64", v |-> 2]},
                        x \in {Nil, IntVal(1), IntVal(3)}}
       \/ /\ evals \in {[job EXCEPT !.callerFrame = f] : f \in {0, CallerPC}}
          /\ ast \in {ParseExpr(<<[L |-> Id(<<"a">>), op |-> o, R |-> Id(<<"b">>)]>>) :
                         o \in {<<"<">>, <<"<", "=">>, <<">">>, <<">", "=">>, <<"=", "=">>,
                                <<"!", "=">>, <<"&", "&">>, <<"|", "|">>}}
                     \cup {ParseExpr(<<[L |-> Id(<<"a">>), op |-> <<">">>, R |-> Lit(<<"2", "0">>)]>>),
                           Binary(Paren(Leaf(Id(<<"a">>), 1)), <<">">>, Leaf(Lit(<<"2", "0">>), 6)),
                           ParseExpr(<<[L |-> Id(<<"a">>), op |-> <<">">>, R |-> Lit(<<"2", "0">>)],
                                       [L |-> Id(<<"b">>), op |-> <<>>, R |-> Id(<<"b">>)]>>)}
          /\ userValues \in
                {[n \in names |-> IF n = <<"a">> THEN va ELSE IF n = <<"b">> THEN vb ELSE IntVal(10)] :
                    names \in SUBSET {<<"a">>, <<"b">>, <<"c">>}, va \in Values, vb \in Values}
    /\ env = NoEnv
    /\ NoColor = TRUE
    /\ colorConfig = NoFormatter
    /\ tree = NilTree
    /\ positions = <<>>
    /\ assignment = NoAssignment
    /\ result = <<>>
    /\ nodeCounter = 0
    /\ formatters = <<>>
    /\ runs = <<>>
    /\ output = <<>>

EvalUnchanged ==
    UNCHANGED <<ast, userValues, env, NoColor, colorConfig, positions, assignment, result,
                nodeCounter, formatters, runs, output>>

\* EvaluateWithValues: extractVariableValuesFromFrame and mergeVariables
MergeVariables ==
    /\ pc = "eval"
    /\ evals.op = "evaluate"
    /\ LET autoExtracted == extractVariableValuesFromFrame(ast, evals.callerFrame) IN
       evals' = [evals EXCEPT !.autoExtracted = autoExtracted,
                              !.Variables = mergeVariables(autoExtracted, userValues)]
    /\ pc' = "merged"
    /\ UNCHANGED tree
    /\ EvalUnchanged

\* EvaluateWithValues: buildEvaluationTree
BuildEvaluationTree ==
    /\ pc = "merged"
    /\ tree' = buildEvaluationTree(ast, evals.Variables).tree
    /\ pc' = "built"
    /\ UNCHANGED evals
    /\ EvalUnchanged

\* buildTreeFromAST on a.method(), a holding the value of the call
BuildCallTree ==
    /\ pc = "eval"
    /\ evals.op = "call"
    /\ LET base == buildTreeFromAST(Leaf(Id(<<"a">>), 0), [n \in {<<"a">>} |-> evals.obj], 0) IN
       tree' = buildCallTree(base.tree, evals.name, base.counter)
    /\ pc' = "returned"
    /\ UNCHANGED evals
    /\ EvalUnchanged

\* buildIndexTree: getIndexValue on the values of the base and the index
GetIndexValue ==
    /\ pc = "eval"
    /\ evals.op = "index"
    /\ evals' = [evals EXCEPT !.out = getIndexValue(evals.obj, evals.index)]
    /\ pc' = "returned"
    /\ UNCHANGED tree
    /\ EvalUnchanged

\* buildSliceTree: getSliceValue on the values of the base and the bounds,
\* and the node of the slice expression
GetSliceValue ==
    /\ pc = "eval"
    /\ evals.op = "slice"
    /\ evals' = [evals EXCEPT !.out = getSliceValue(evals.obj, evals.low, evals.high, evals.max)]
    /\ tree' = buildSliceTree(evals.obj, evals.low, evals.high, evals.max)
    /\ pc' = "returned"
    /\ EvalUnchanged

\* formatMachineSection: the EVALUATION_STEPS of a result that has a tree
ExtractEvaluationSteps ==
    /\ pc \in {"built", "returned"}
    /\ tree \notin {NilTree, Panic}
    /\ result' = extractEvaluationSteps(tree)
    /\ pc' = "traced"
    /\ UNCHANGED <<ast, userValues, env, NoColor, colorConfig, tree, positions, assignment,
                   nodeCounter, evals, formatters, runs, output>>

NextEval ==
    \/ MergeVariables
    \/ BuildEvaluationTree
    \/ BuildCallTree
    \/ GetIndexValue
    \/ GetSliceValue
    \/ ExtractEvaluationSteps

SpecEval == InitEval /\ [][NextEval]_vars

\* The number a numeric value stands for, in halves.
Halves(v) == IF v.t \in NumericTypes.float THEN v.v ELSE 2 * v.v

IsNumeric(v) ==
    v.t \in {"int", "int8", "int16", "int32", "int64", "uint", "uint8", "uint16", "uint32",
             "uint64", "float32", "float64"}

\* C16: for <, <=, >, >= on two numeric operands of whatever types, the
\* Result of the comparison node is the comparison of the two numbers.
C16_NumericComparison ==
    (pc = "built" /\ tree.Type = "comparison"
        /\ IsNumeric(tree.Left.Value) /\ IsNumeric(tree.Right.Value)) =>
        LET l == Halves(tree.Left.Value)
            r == Halves(tree.Right.Value)
        IN /\ tree.Operator = <<"<">> => (tree.Result <=> l < r)
           /\ tree.Operator = <<"<", "=">> => (tree.Result <=> l <= r)
           /\ tree.Operator = <<">">> => (tree.Result <=> l > r)
           /\ tree.Operator = <<">", "=">> => (tree.Result <=> l >= r)

\* a = uint64 25 and b = float32 2.5 captured: a > b is true
C16_Witness ==
    /\ pc = "built"
    /\ tree.Type = "comparison"
    /\ tree.Operator = <<">">>
    /\ tree.Left.Value = [t |-> "uint64", v |-> 25]
    /\ tree.Right.Value = [t |-> "float32", v |-> 5]
    /\ tree.Result

\* C13: building a method-call node never raises: whatever the base value
\* and the method name, the node's Value is the method's first result or is
\* absent.
C13_CallNeverRaises ==
    (pc = "returned" /\ evals.op = "call") =>
        /\ tree # Panic
        /\ \/ tree.Value = Nil
           \/ /\ evals.obj.t = "Counter"
              /\ evals.name \in DOMAIN CounterMethods(evals.obj.v)
              /\ CounterMethods(evals.obj.v)[evals.name].results # <<>>
              /\ tree.Value = CounterMethods(evals.obj.v)[evals.name].results[1]

\* The elements of a base that has some, and the bounds a slice access
\* works with.
ElemsOf(obj) == IF obj.t = "[]int" THEN obj.v.elems ELSE IF obj.t \in {"[3]int", "string"} THEN obj.v ELSE <<>>
BoundOr(bound, default) == IF bound = Nil THEN default ELSE bound.v

\* An index access that cannot give an element, and a slice access that
\* cannot give a sub-range.
BadIndex ==
    \/ evals.obj.t \notin {"[]int", "[3]int"}
    \/ evals.index.t # "int"
    \/ evals.index.v < 0
    \/ evals.index.v >= Len(ElemsOf(evals.obj))
BadSlice ==
    LET length == Len(ElemsOf(evals.obj))
        lowIdx == BoundOr(evals.low, 0)
        highIdx == BoundOr(evals.high, length)
    IN \/ evals.obj.t \notin {"[]int", "[3]int", "string"}
       \/ \E bound \in {evals.low, evals.high, evals.max} : bound.t = "string"
       \/ lowIdx < 0 \/ lowIdx > highIdx \/ highIdx > length
       \/ evals.max # Nil /\ (BoundOr(evals.max, length) < highIdx \/ BoundOr(evals.max, length) > length)

\* C14: an index or slice access never raises, slicing an array value
\* included, and one that is out of range, has its bounds in the wrong order
\* or is applied to a base or index of the wrong type yields an absent Value.
C14_AccessNeverRaises ==
    (pc = "returned" /\ evals.op \in {"index", "slice"}) =>
        /\ evals.out # Panic
        /\ (evals.op = "index" /\ BadIndex) => evals.out = Nil
        /\ (evals.op = "slice" /\ BadSlice) => evals.out = Nil

\* The operands of the comparison at the root.
Comparable(v) == v.t # "[]int"
SameTypeAndDeeplyEqual(l, r) == l.t = r.t /\ l.v = r.v

\* C17 as stated: == is true exactly when both operands have the same type
\* and are deeply equal, != is its negation, and with an absent or
\* non-comparable operand the Result is false for both operators.
C17_EqualityAbsentIsFalse ==
    (pc = "built" /\ tree.Type = "comparison"
        /\ tree.Operator \in {<<"=", "=">>, <<"!", "=">>}) =>
        LET l == tree.Left.Value
            r == tree.Right.Value
        IN IF l = Nil \/ r = Nil \/ ~Comparable(l) \/ ~Comparable(r) THEN ~tree.Result
           ELSE IF tree.Operator = <<"=", "=">> THEN tree.Result <=> SameTypeAndDeeplyEqual(l, r)
           ELSE tree.Result <=> ~SameTypeAndDeeplyEqual(l, r)

\* C17 amended: as stated for operands that are present; with an absent
\* operand, == is true exactly when both operands are absent and != is its
\* negation.
C17_Equality ==
    (pc = "built" /\ tree.Type = "comparison"
        /\ tree.Operator \in {<<"=", "=">>, <<"!", "=">>}) =>
        LET l == tree.Left.Value
            r == tree.Right.Value
        IN IF l = Nil \/ r = Nil
           THEN IF tree.Operator = <<"=", "=">> THEN tree.Result <=> (l = Nil /\ r = Nil)
                ELSE tree.Result <=> ~(l = Nil /\ r = Nil)
           ELSE IF ~Comparable(l) \/ ~Comparable(r) THEN ~tree.Result
           ELSE IF tree.Operator = <<"=", "=">> THEN tree.Result <=> SameTypeAndDeeplyEqual(l, r)
           ELSE tree.Result <=> ~SameTypeAndDeeplyEqual(l, r)

\* a != b with a captured as nil and b as 10
C17_Witness ==
    /\ pc = "built"
    /\ tree.Type = "comparison"
    /\ tree.Operator = <<"!", "=">>
    /\ tree.Left.Value = Nil
    /\ tree.Right.Value = IntVal(10)
    /\ tree.Result

\* C18: an identifier node's Result is the truthiness of its Value: a
\* boolean is itself, a number is true iff it is not zero, a string iff it is
\* not empty, an absent value is false, a value of another type is true iff
\* it is not the zero value of its type.
C18_Truthiness ==
    pc = "built" =>
        \A t \in {u \in TreeNodes(tree) : u.Type = "identifier"} :
            t.Result <=>
                CASE t.Value = Nil -> FALSE
                  [] t.Value.t = "bool" -> t.Value.v
                  [] IsNumeric(t.Value) -> Halves(t.Value) # 0
                  [] t.Value.t = "string" -> Len(t.Value.v) > 0
                  [] t.Value.t = "[]int" -> t.Value # [t |-> "[]int", v |-> [isNil |-> TRUE, elems |-> <<>>]]
                  [] t.Value.t = "[3]int" -> t.Value.v # <<0, 0, 0>>
                  [] t.Value.t = "Counter" -> t.Value.v # 0

\* a is the zero Counter and b a slice that is not nil
C18_Witness ==
    /\ pc = "built"
    /\ tree.Type = "logical"
    /\ tree.Left.Type = "identifier" /\ tree.Left.Value = [t |-> "Counter", v |-> 0]
    /\ ~tree.Left.Result
    /\ tree.Right.Type = "identifier" /\ tree.Right.Value.t = "[]int"
    /\ tree.Right.Result

\* The syntax node a tree node was built from, for a logical node of the tree.
RECURSIVE LogicalNodesBuilt(_, _, _)
LogicalNodesBuilt(t, n, variables) ==
    n.kind = "BinaryExpr" =>
        /\ n.op \in {<<"&", "&">>, <<"|", "|">>} =>
              /\ t.Left # NilTree /\ t.Right # NilTree
              /\ WithoutIDs(t.Left) = WithoutIDs(buildTreeFromAST(n.X, variables, 0).tree)
              /\ WithoutIDs(t.Right) = WithoutIDs(buildTreeFromAST(n.Y, variables, 0).tree)
              /\ n.op = <<"&", "&">> => (t.Result <=> (t.Left.Result /\ t.Right.Result))
              /\ n.op = <<"|", "|">> => (t.Result <=> (t.Left.Result \/ t.Right.Result))
        /\ LogicalNodesBuilt(t.Left, n.X, variables)
        /\ LogicalNodesBuilt(t.Right, n.Y, variables)

\* C19: for every && and || node both operand subtrees are built and
\* evaluated whatever the left Result is, and the node's Result is the
\* conjunction, respectively the disjunction, of the operands' Results.
C19_NoShortCircuit ==
    pc = "built" => LogicalNodesBuilt(tree, ast, evals.Variables)

\* a || b with a true: b is evaluated all the same
C19_Witness ==
    /\ pc = "built"
    /\ tree.Operator = <<"|", "|">>
    /\ tree.Left.Result
    /\ tree.Right.Value = IntVal(0)
    /\ ~tree.Right.Result
    /\ tree.Result

\* C20: the merged lookup has the union of the auto-resolved and the
\* captured names as its keys, a captured name maps to its captured value,
\* every other name to its auto-resolved value, and the two input maps stay
\* what they were.
C20_MergePrecedence ==
    /\ [](pc \in {"merged", "built"} =>
            /\ DOMAIN evals.Variables = DOMAIN evals.autoExtracted \cup DOMAIN userValues
            /\ \A name \in DOMAIN userValues : evals.Variables[name] = userValues[name]
            /\ \A name \in DOMAIN evals.autoExtracted \ DOMAIN userValues :
                  evals.Variables[name] = evals.autoExtracted[name])
    /\ [][/\ userValues' = userValues
           /\ pc = "merged" => evals'.autoExtracted = evals.autoExtracted]_vars

\* a is captured and auto-resolved, b is auto-resolved only, c is captured only
C20_Witness ==
    /\ pc = "merged"
    /\ DOMAIN userValues = {<<"a">>, <<"c">>}
    /\ DOMAIN evals.autoExtracted = {<<"a">>, <<"b">>}
    /\ userValues[<<"a">>] = IntVal(25)

\* C21: the Text of every node of a tree built from an expression that
\* parses is a contiguous substring of the expression text.
C21_TextIsSubstring ==
    (pc = "built" /\ ast.kind # "BadExpr") =>
        \A t \in TreeNodes(tree) : IndexFrom(expr, t.Text, 0) # -1

\* The nodes of a tree in post-order: the descendants of a node before the
\* node, left operand before right operand, Children in their order.
RECURSIVE PostOrder(_)
PostOrder(t) ==
    IF t = NilTree THEN <<>>
    ELSE LET RECURSIVE children(_)
             children(cs) == IF cs = <<>> THEN <<>>
                             ELSE PostOrder(Head(cs)) \o children(Tail(cs))
         IN PostOrder(t.Left) \o PostOrder(t.Right)
            \o (IF "Children" \in DOMAIN t THEN children(t.Children) ELSE <<>>)
            \o <<t>>

\* C22: the evaluation trace is the sequence of the steps of all nodes of
\* the tree in post-order, the Children of a slice node included.
C22_TracePostOrder ==
    pc = "traced" =>
        result = [i \in 1..Len(PostOrder(tree)) |-> formatEvaluationStep(PostOrder(tree)[i])]

C24_HashNonNegative ==
    runs # <<>> => runs.hash[4] < Limb \div 2

\* C25: two snippets that differ are assigned different palette colours.
C25_UniquePipeColours ==
    (runs # <<>> /\ runs.colorIndex # -1) =>
        \A s \in Snippets \ {runs.expression} :
            assignPipeColor(formatters[runs.f].config, s)
                # assignPipeColor(formatters[runs.f].config, runs.expression)

----------------------------------------------------------------------------
(* assert.go: Assert and Require on a test handle (specification           *)
(* SpecAssert).  The handle keeps the calls made on it.                    *)

\* buildDiagnosticOutputWithContext for the arguments of the job: the
\* context of NewAssertionContext, the evaluation, and the output of a new
\* formatter; or the panic of the evaluation.  The asserted expression is
\* ast, or a.call() when the job names a method.
buildDiagnosticOutputWithContext(job, n, e) ==
    LET values == SelectSeq(job.args, LAMBDA arg : arg.kind = "Value")
        Values == [i \in 1..Len(values) |-> [Name |-> values[i].Name, Value |-> values[i].Value]]
        messages == SelectSeq(job.args, LAMBDA arg : arg.kind = "string")
        Messages == [i \in 1..Len(messages) |-> messages[i].Name]
        a == Leaf([kind |-> "Ident", text |-> <<"a">>], 0)
        base == buildTreeFromAST(
                    a, mergeVariables(extractVariableValuesFromFrame(a, CallerPC),
                                      GetValuesMap(Values)), 0)
    IN IF job.call # <<>> /\ buildCallTree(base.tree, job.call, base.counter) = Panic
       THEN Panic
       ELSE CHOOSE out \in
                {FormatVisualWithContext(f, n, vs, customMessage, e, globalNoColor) :
                    f \in {setupColorConfig(e)}, vs \in {Values},
                    customMessage \in {getCombinedMessage(Messages)},
                    globalNoColor \in {~shouldEnableColors(e)}} : TRUE

\* Assert or Require is called with a true or a false condition, with
\* captured values and messages as arguments, the condition being a > 4 or
\* a > b, or a.Add() with a captured as a Counter (Add takes a parameter).
InitAssert ==
    /\ pc = "call"
    /\ env \in {EnvWith(e, "") : e \in Environments}
    /\ NoColor \in BOOLEAN
    /\ \/ /\ ast \in ConcurrentExprs
          /\ evals \in {[api |-> api, expr |-> b, call |-> <<>>, args |-> l] :
                            api \in {"Assert", "Require"}, b \in BOOLEAN,
                            l \in {x \in ArgLists : \A i \in DOMAIN x : x[i].kind # "Values"}}
       \/ /\ ast = NoNode
          /\ evals \in {[api |-> api, expr |-> b, call |-> <<"A", "d", "d">>,
                          args |-> <<ArgValue(<<"a">>, [t |-> "Counter", v |-> k])>>] :
                            api \in {"Assert", "Require"}, b \in BOOLEAN, k \in {0, 7}}
    /\ runs = <<>>
    /\ output = <<>>
    /\ userValues = <<>>
    /\ colorConfig = NoFormatter
    /\ tree = NilTree
    /\ positions = <<>>
    /\ assignment = NoAssignment
    /\ result = <<>>
    /\ nodeCounter = 0
    /\ formatters = <<>>

\* Assert: t.Helper(), and for a false condition t.Error(output)
CallAssert ==
    /\ pc = "call"
    /\ evals.api = "Assert"
    /\ LET helped == Append(runs, [method |-> "Helper", args |-> <<>>]) IN
       IF evals.expr
       THEN pc' = "returned" /\ runs' = helped /\ UNCHANGED <<output, NoColor>>
       ELSE \E out \in {buildDiagnosticOutputWithContext(evals, ast, env)} :
               IF out = Panic
               THEN pc' = "panicked" /\ runs' = helped /\ UNCHANGED <<output, NoColor>>
               ELSE /\ pc' = "returned"
                    /\ runs' = Append(helped, [method |-> "Error", args |-> out])
                    /\ output' = out
                    /\ NoColor' = ~shouldEnableColors(env)
    /\ UNCHANGED <<ast, userValues, env, colorConfig, tree, positions, assignment, result,
                   nodeCounter, evals, formatters>>

\* Require: t.Helper(), and for a false condition t.Fatal(output), which
\* ends the test
CallRequire ==
    /\ pc = "call"
    /\ evals.api = "Require"
    /\ LET helped == Append(runs, [method |-> "Helper", args |-> <<>>]) IN
       IF evals.expr
       THEN pc' = "returned" /\ runs' = helped /\ UNCHANGED <<output, NoColor>>
       ELSE \E out \in {buildDiagnosticOutputWithContext(evals, ast, env)} :
               IF out = Panic
               THEN pc' = "panicked" /\ runs' = helped /\ UNCHANGED <<output, NoColor>>
               ELSE /\ pc' = "exited"
                    /\ runs' = Append(helped, [method |-> "Fatal", args |-> out])
                    /\ output' = out
                    /\ NoColor' = ~shouldEnableColors(env)
    /\ UNCHANGED <<ast, userValues, env, colorConfig, tree, positions, assignment, result,
                   nodeCounter, evals, formatters>>

NextAssert ==
    \/ CallAssert
    \/ CallRequire

SpecAssert == InitAssert /\ [][NextAssert]_vars

\* C26: once Assert or Require is over, the handle has seen no Error and no
\* Fatal call when the condition was true, and exactly one when it was
\* false: Error for Assert, Fatal for Require, with the diagnostic output.
C26_ReportsExactlyWhenFalse ==
    pc \in {"returned", "exited", "panicked"} =>
        LET reports == SelectSeq(runs, LAMBDA c : c.method \in {"Error", "Fatal"}) IN
        IF evals.expr THEN reports = <<>>
        ELSE /\ Len(reports) = 1
             /\ reports[1].method = (IF evals.api = "Assert" THEN "Error" ELSE "Fatal")
             /\ reports[1].args = output
             /\ output # <<>>

----------------------------------------------------------------------------
(* The layer assigner on lists of positions (specification SpecLayers).    *)

\* The largest number of positions in a list.
MaxPositions == 4

\* The columns a position can be at.
Columns == 0..4

\* A list of positions as extractAllPositionsWithAST returns it, ordered by
\* column: at most MaxPositions columns, each with the value 12, 123 or
\* 12345678 under an expression one column wide, of priority 1 or 2.
InitLayers ==
    /\ pc = "layers"
    /\ \E cols \in SUBSET Columns :
          /\ Cardinality(cols) <= MaxPositions
          /\ LET nth(k) == CHOOSE c \in cols : Cardinality({d \in cols : d < c}) = k - 1 IN
             positions \in
                {[k \in 1..Cardinality(cols) |->
                     ValuePosition(<<"a">>, choice[nth(k)][1], nth(k), nth(k) + 1,
                                   nth(k), nth(k) + 1, 0, choice[nth(k)][2])] :
                    choice \in [cols -> {<<"1", "2">>, <<"1", "2", "3">>,
                                         <<"1", "2", "3", "4", "5", "6", "7", "8">>}
                                        \X {1, 2}]}
    /\ assignment = NoAssignment
    /\ ast = NoNode
    /\ userValues = <<>>
    /\ env = NoEnv
    /\ NoColor = TRUE
    /\ colorConfig = NoFormatter
    /\ tree = NilTree
    /\ result = <<>>
    /\ nodeCounter = 0
    /\ evals = <<>>
    /\ formatters = <<>>
    /\ runs = <<>>
    /\ output = <<>>

\* assignVisualLayers on the list
AssignVisualLayers ==
    /\ pc = "layers"
    /\ \E out \in {assignVisualLayers(positions)} : assignment' = out
    /\ pc' = "assigned"
    /\ UNCHANGED <<ast, userValues, env, NoColor, colorConfig, tree, positions, result,
                   nodeCounter, evals, formatters, runs, output>>

NextLayers == AssignVisualLayers

SpecLayers == InitLayers /\ [][NextLayers]_vars

\* m is placed before n: higher Priority, or the same and a column not to
\* the right of n's.
PlacedBefore(m, n) ==
    \/ m.Position.Priority > n.Position.Priority
    \/ m.Position.Priority = n.Position.Priority /\ m.PipePosition <= n.PipePosition

Overlap(m, n) ==
    /\ m.PipePosition < n.PipePosition + visualWidth(n.Position.Value)
    /\ n.PipePosition < m.PipePosition + visualWidth(m.Position.Value)

\* C27: the assignment is the first-fit one for the order Priority
\* descending, column ascending: a layer holds its nodes in that order and
\* without overlap, every node of a layer overlaps an earlier-placed node in
\* each layer below it, and the first position of the order is in layer 0.
C27_FirstFit ==
    pc = "assigned" =>
        LET Layers == assignment.Layers IN
        /\ \A k \in 1..Len(Layers) : \A i \in 1..Len(Layers[k]) :
              LET n == Layers[k][i] IN
              /\ \A h \in 1..(i - 1) : PlacedBefore(Layers[k][h], n) /\ ~Overlap(Layers[k][h], n)
              /\ \A j \in 1..(k - 1) :
                    \E h \in 1..Len(Layers[j]) :
                        PlacedBefore(Layers[j][h], n) /\ Overlap(Layers[j][h], n)
        /\ \A i \in 1..Len(positions) :
              (\A j \in 1..Len(positions) : PlacedBefore(VisualNode(positions[i]), VisualNode(positions[j])))
                  => Layers[1][1].Position = positions[i]

\* 12 at column 0 and 12 at column 4 of priority 2 share layer 0; 12 at
\* column 1 opens layer 1, and 123 at column 2 overlaps a node of both.
C27_Witness ==
    /\ pc = "assigned"
    /\ Len(positions) = 4
    /\ Len(assignment.Layers) = 3
    /\ Len(assignment.Layers[1]) = 2
    /\ assignment.Layers[3][1].PipePosition = 2

\* C28: for every list the assigner comes to an end and returns a layout,
\* for a call still to be made as for one that was made: every position of
\* the list is a node of exactly one layer, no layer is empty, and there are
\* at most as many layers as positions.
C28_EveryPositionPlacedOnce ==
    \A Layers \in {IF pc = "layers" THEN assignVisualLayers(positions).Layers
                   ELSE assignment.Layers} :
        /\ \A i \in 1..Len(positions) :
              Cardinality({at \in {<<k, h>> : k \in 1..Len(Layers), h \in 1..MaxPositions + 1} :
                              /\ at[2] <= Len(Layers[at[1]])
                              /\ Layers[at[1]][at[2]].Position = positions[i]}) = 1
        /\ \A k \in 1..Len(Layers) :
              /\ Len(Layers[k]) > 0
              /\ \A h \in 1..Len(Layers[k]) :
                    \E i \in 1..Len(positions) : Layers[k][h].Position = positions[i]
        /\ Len(Layers) <= Len(positions)

\* Four values eight columns wide under expressions one column wide, at
\* neighbouring columns: a layer each.
C28_Witness ==
    /\ pc = "assigned"
    /\ Len(positions) = 4
    /\ \A i \in 1..4 : visualWidth(positions[i].Value) = 8
    /\ Len(assignment.Layers) = 4

\* The least number of layers a list can be placed in without overlap: the
\* largest number of ranges that cover one column.
MinLayers(ps) ==
    LET covering(c) == {i \in 1..Len(ps) :
                           ps[i].VisualPos <= c /\ c < ps[i].VisualPos + visualWidth(ps[i].Value)}
        counts == {Cardinality(covering(ps[i].VisualPos)) : i \in 1..Len(ps)} \cup {0}
    IN CHOOSE m \in counts : \A o \in counts : o <= m

\* C29: the assigner uses at least as many layers as the list needs, and
\* for some lists more (the witness).
C29_AtLeastMinimal ==
    pc = "assigned" => Len(assignment.Layers) >= MinLayers(positions)

\* 12 at columns 0 and 4 (priority 2), 12 at column 1 and 123 at column 2
\* (priority 1): two layers are enough ({0, 2} and {1, 4}), the assigner
\* uses three.
C29_Witness ==
    /\ pc = "assigned"
    /\ Len(positions) = 4
    /\ MinLayers(positions) = 2
    /\ \E f \in [1..4 -> 1..2] :
          \A i, j \in 1..4 :
              (i # j /\ f[i] = f[j]) => ~Overlap(VisualNode(positions[i]), VisualNode(positions[j]))
    /\ Len(assignment.Layers) = 3

----------------------------------------------------------------------------
(* The lines of the picture, layer by layer (specification Spec)           *)

\* line is the pipe line of layer k (from 0): spaces and pipes only, with a
\* pipe over every node of the layer.
IsPipeLineOf(line, k) ==
    /\ \A i \in 1..Len(line) : line[i] \in {" ", "|"}
    /\ \A h \in 1..Len(assignment.Layers[k + 1]) :
          LET col == assignment.Layers[k + 1][h].PipePosition IN
          col < Len(line) /\ line[col + 1] = "|"

\* line is the value line of layer k.  Without colours the value of every
\* node of the layer stands in it from the node's column on; the colouring
\* replaces text of the line by text that holds it, so that the runes of the
\* values stay in the line, at other places.
IsValueLineOf(line, k) ==
    \A h \in 1..Len(assignment.Layers[k + 1]) :
        LET n == assignment.Layers[k + 1][h] IN
        IF colorConfig.ColorsEnabled
        THEN \A i \in 1..Len(n.Position.Value) :
                \E j \in 1..Len(line) : line[j] = n.Position.Value[i]
        ELSE SubSeq(line, n.PipePosition + 1, n.PipePosition + Len(n.Position.Value))
                 = n.Position.Value

EndsInWhitespace(line) == line # <<>> /\ line[Len(line)] \in {" ", "TAB", "LF"}

====
